---- MODULE Spec2Model ----
(***************************************************************************)
(* A model of termviz (src/termviz.h, namespace termviz, second revision   *)
(* in the file, lines 1282-2610): the sixel encoder behind imshow() and    *)
(* the life cycle of a Figure session.                                     *)
(*                                                                         *)
(* Bytes written to std::cout are modelled as sequences of integers        *)
(* (their character codes).  ctype is unsigned char: arithmetic on it is   *)
(* taken modulo 256.                                                       *)
(***************************************************************************)
EXTENDS Integers, Sequences, FiniteSets, TLC

(***************************************************************************)
(* Bounds of the model                                                     *)
(***************************************************************************)
MaxPixels == 9
MaxPalette == 3
MaxCalls == 4

(***************************************************************************)
(* Character codes used by the sixel protocol                              *)
(***************************************************************************)
ESC == 27
LF == 10
CH_BANG == 33
CH_HASH == 35
CH_DOLLAR == 36
CH_MINUS == 45
CH_ZERO == 48
CH_SEMI == 59
CH_BACKSLASH == 92
SIXEL_BASE == 63
CTYPE_MOD == 256
CTYPE_MAX == 255

(***************************************************************************)
(* float values with no integer counterpart                                *)
(***************************************************************************)
Inf == 999999
None == 888888
isfinite(v) == v \notin {Inf, -Inf, None}

(***************************************************************************)
(* State                                                                   *)
(*   image, cmap, zero_is_transparent: the arguments of a call of imshow   *)
(*   out: the bytes imshow wrote to std::cout; pc: before/after the call   *)
(*   m_*: the fields of a Figure; fig: where the session is in its life    *)
(*   frames: the images the Figure wrote to std::cout, one entry per call  *)
(*     of imshow made by show()                                            *)
(*   last_call, ncalls, nadded, rendered, at_throw, unwound: history of    *)
(*     the session, read by the properties only                            *)
(*   plot: the fields xlim, ylim, xgrid, ygrid of a Plot and the number of *)
(*     segments drawn on its canvas; plot_pc: alive, or an exception is    *)
(*     propagating; plot_last: history of the Plot (properties only)       *)
(*   canvas: the Image<ctype> handed to render_line and Font::render;      *)
(*     build: what the build makes of the conversion of a NaN to int;      *)
(*     painted: history of the last rendering call (properties only)       *)
(*   layout: what show() resolved and drew for the session                 *)
(*   calc: a call of one of the functions (get_colour_in_cmap, Rescale,    *)
(*     gray) with its arguments and result, or the colour loop of encode   *)
(*     with its loop variable                                              *)
(***************************************************************************)
VARIABLES image, cmap, zero_is_transparent, out, pc,
          m_canvas_size, m_colourmap, m_zero_is_transparent, m_tick_spacing,
          m_grid, m_xlim, m_ylim, m_elements, fig, frames,
          last_call, ncalls, nadded, rendered, at_throw, unwound,
          plot, plot_pc, plot_last,
          canvas, build, painted,
          layout,
          calc

imshow_vars == <<image, cmap, zero_is_transparent, out, pc>>
settings == <<m_canvas_size, m_colourmap, m_zero_is_transparent, m_tick_spacing,
              m_grid, m_xlim, m_ylim>>
session == <<settings, m_elements>>
history == <<last_call, ncalls, nadded, rendered, at_throw, unwound>>
figure_vars == <<session, fig, frames, history>>
plot_vars == <<plot, plot_pc, plot_last>>
paint_vars == <<canvas, build, painted>>
layout_vars == <<layout>>
calc_vars == <<calc>>
side_vars == <<plot_vars, paint_vars, layout_vars, calc_vars>>
vars == <<imshow_vars, figure_vars, side_vars>>

(***************************************************************************)
(* std::format ("{}", n) for a non-negative int: its decimal digits.       *)
(***************************************************************************)
RECURSIVE Decimal(_)
Decimal(n) ==
  IF n < 10 THEN <<CH_ZERO + n>>
  ELSE Decimal(n \div 10) \o <<CH_ZERO + (n % 10)>>

(***************************************************************************)
(* Figure::get_default_cmap (WHITEBG not set): the built-in colourmap.     *)
(***************************************************************************)
get_default_cmap ==
  << <<0,0,0>>, <<100,100,100>>, <<100,100,20>>, <<100,20,100>>,
     <<20,100,100>>, <<100,20,20>>, <<20,100,20>>, <<20,20,100>> >>

(***************************************************************************)
(* colourmap_specifier: "#n;2;R;G;B" for each entry, n counting from 0.    *)
(***************************************************************************)
RECURSIVE colourmap_specifier_from(_, _)
colourmap_specifier_from(colours, n) ==
  IF n >= Len(colours) THEN <<>>
  ELSE <<CH_HASH>> \o Decimal(n) \o <<CH_SEMI, CH_ZERO + 2, CH_SEMI>>
         \o Decimal(colours[n+1][1]) \o <<CH_SEMI>>
         \o Decimal(colours[n+1][2]) \o <<CH_SEMI>>
         \o Decimal(colours[n+1][3])
         \o colourmap_specifier_from(colours, n + 1)

colourmap_specifier(colours) == colourmap_specifier_from(colours, 0)

(***************************************************************************)
(* commit: a run of `repeats` columns with mask `current`.                 *)
(***************************************************************************)
\* variant: the threshold of the repeat token moved by one
commit_threshold4(current, repeats) ==
  IF repeats <= 4
    THEN [n \in 1..repeats |-> (SIXEL_BASE + current) % CTYPE_MOD]
    ELSE <<CH_BANG>> \o Decimal(repeats) \o <<(SIXEL_BASE + current) % CTYPE_MOD>>

commit(current, repeats) ==
  IF repeats <= 3
    THEN [n \in 1..repeats |-> (SIXEL_BASE + current) % CTYPE_MOD]
    ELSE <<CH_BANG>> \o Decimal(repeats) \o <<(SIXEL_BASE + current) % CTYPE_MOD>>

(***************************************************************************)
(* The inner loop of encode_row: the mask of column x for one intensity.   *)
(***************************************************************************)
\* variant: the band offset y0 left out of the pixel access
RECURSIVE column_mask_no_offset(_, _, _, _, _, _, _)
column_mask_no_offset(im, x, y0, nsixels, intensity, y, c) ==
  IF y >= nsixels THEN c
  ELSE column_mask_no_offset(im, x, y0, nsixels, intensity, y + 1,
         IF im.px[<<x, y>>] = intensity
           THEN (c + (IF (c \div (2^y)) % 2 = 0 THEN 2^y ELSE 0)) % CTYPE_MOD
           ELSE c)

RECURSIVE column_mask(_, _, _, _, _, _, _)
column_mask(im, x, y0, nsixels, intensity, y, c) ==
  IF y >= nsixels THEN c
  ELSE column_mask(im, x, y0, nsixels, intensity, y + 1,
         IF im.px[<<x, y + y0>>] = intensity
           THEN (c + (IF (c \div (2^y)) % 2 = 0 THEN 2^y ELSE 0)) % CTYPE_MOD
           ELSE c)

(***************************************************************************)
(* encode_row: the loop over the columns, with its running state           *)
(* (repeats, current, out), and the commit after the loop.                 *)
(***************************************************************************)
\* variant: the run pending at the end of the row is not committed
RECURSIVE encode_row_loop_no_flush(_, _, _, _, _, _, _, _, _)
encode_row_loop_no_flush(im, y0, x_dim, nsixels, intensity, x, repeats, current, o) ==
  IF x >= x_dim THEN o
  ELSE LET c == column_mask(im, x, y0, nsixels, intensity, 0, 0) IN
    IF repeats = 0
      THEN encode_row_loop_no_flush(im, y0, x_dim, nsixels, intensity, x + 1, 1, c, o)
    ELSE IF c = current
      THEN encode_row_loop_no_flush(im, y0, x_dim, nsixels, intensity, x + 1,
                                    repeats + 1, current, o)
    ELSE encode_row_loop_no_flush(im, y0, x_dim, nsixels, intensity, x + 1, 1, c,
                                  o \o commit(current, repeats))

\* variant: the count of the run is not started again after a commit
RECURSIVE encode_row_loop_no_reset(_, _, _, _, _, _, _, _, _)
encode_row_loop_no_reset(im, y0, x_dim, nsixels, intensity, x, repeats, current, o) ==
  IF x >= x_dim THEN o \o commit(current, repeats)
  ELSE LET c == column_mask(im, x, y0, nsixels, intensity, 0, 0) IN
    IF repeats = 0
      THEN encode_row_loop_no_reset(im, y0, x_dim, nsixels, intensity, x + 1, 1, c, o)
    ELSE IF c = current
      THEN encode_row_loop_no_reset(im, y0, x_dim, nsixels, intensity, x + 1,
                                    repeats + 1, current, o)
    ELSE encode_row_loop_no_reset(im, y0, x_dim, nsixels, intensity, x + 1,
                                  repeats + 1, c, o \o commit(current, repeats))

RECURSIVE encode_row_loop(_, _, _, _, _, _, _, _, _)
encode_row_loop(im, y0, x_dim, nsixels, intensity, x, repeats, current, o) ==
  IF x >= x_dim THEN o \o commit(current, repeats)
  ELSE LET c == column_mask(im, x, y0, nsixels, intensity, 0, 0) IN
    IF repeats = 0
      THEN encode_row_loop(im, y0, x_dim, nsixels, intensity, x + 1, 1, c, o)
    ELSE IF c = current
      THEN encode_row_loop(im, y0, x_dim, nsixels, intensity, x + 1, repeats + 1, current, o)
    ELSE encode_row_loop(im, y0, x_dim, nsixels, intensity, x + 1, 1, c,
                         o \o commit(current, repeats))

encode_row(im, y0, x_dim, nsixels, intensity) ==
  encode_row_loop(im, y0, x_dim, nsixels, intensity, 0, 0, CTYPE_MAX, <<>>)

(***************************************************************************)
(* encode: one band.  intensity is a ctype compared with the int cmap_end  *)
(***************************************************************************)
Min(a, b) == IF a < b THEN a ELSE b

RECURSIVE encode_loop(_, _, _, _, _, _, _)
encode_loop(im, cmap_end, y0, nsixels, intensity, first, o) ==
  IF ~(intensity < cmap_end) THEN o \o <<CH_MINUS>>
  ELSE LET row == encode_row(im, y0, im.width, nsixels, intensity) IN
    IF Len(row) > 0
      THEN encode_loop(im, cmap_end, y0, nsixels, (intensity + 1) % CTYPE_MOD, FALSE,
             o \o (IF first THEN <<>> ELSE <<CH_DOLLAR>>)
               \o <<CH_HASH>> \o Decimal(intensity) \o row)
      ELSE encode_loop(im, cmap_end, y0, nsixels, (intensity + 1) % CTYPE_MOD, first, o)

encode(im, cmap_start, cmap_end, y0) ==
  encode_loop(im, cmap_end, y0, Min(im.height - y0, 6), cmap_start % CTYPE_MOD, TRUE, <<>>)

(***************************************************************************)
(* imshow (indexed image): introducer, colour definitions, the bands from  *)
(* top to bottom, string terminator and newline.                           *)
(***************************************************************************)
RECURSIVE imshow_bands(_, _, _, _)
imshow_bands(im, cm, zt, y) ==
  IF ~(y < im.height) THEN <<>>
  ELSE encode(im, IF zt THEN 1 ELSE 0, Len(cm), y) \o imshow_bands(im, cm, zt, y + 6)

\* variant: the string terminator is not written
imshow_no_terminator(im, cm, zt) ==
  <<ESC, 80, 57, CH_SEMI, 49, 113>> \o colourmap_specifier(cm)
    \o imshow_bands(im, cm, zt, 0)
    \o <<LF>>

imshow(im, cm, zt) ==
  <<ESC, 80, 57, CH_SEMI, 49, 113>> \o colourmap_specifier(cm)
    \o imshow_bands(im, cm, zt, 0)
    \o <<ESC, CH_BACKSLASH, LF>>

(***************************************************************************)
(* Reading the stream back: a recogniser of the wire format.  It is used   *)
(* by the properties only.  Every function returns a record with a field   *)
(* ok and the position next of the first byte it did not consume.          *)
(***************************************************************************)
IsDigit(b) == b \in CH_ZERO..(CH_ZERO + 9)
IsSixelChar(b) == b \in SIXEL_BASE..(SIXEL_BASE + 63)

RECURSIVE DigitsEnd(_, _)
DigitsEnd(s, i) ==
  IF i <= Len(s) /\ IsDigit(s[i]) THEN DigitsEnd(s, i + 1) ELSE i

RECURSIVE DigitsValue(_, _, _)
DigitsValue(s, i, j) ==
  IF j < i THEN 0 ELSE 10 * DigitsValue(s, i, j - 1) + (s[j] - CH_ZERO)

\* a decimal number without sign and without leading zeros
ParseNumber(s, i) ==
  LET j == DigitsEnd(s, i) IN
    [ok |-> j > i /\ (j - i > 1 => s[i] # CH_ZERO),
     val |-> DigitsValue(s, i, j - 1), next |-> j]

ExpectByte(s, i, b) == i <= Len(s) /\ s[i] = b

\* "#n;2;R;G;B" for n = from, from+1, ..., count-1
RECURSIVE ParseColourDefs(_, _, _, _)
ParseColourDefs(s, i, from, count) ==
  IF from >= count THEN [ok |-> TRUE, cols |-> <<>>, next |-> i]
  ELSE
    LET n == ParseNumber(s, i + 1)
        r == ParseNumber(s, n.next + 3)
        g == ParseNumber(s, r.next + 1)
        b == ParseNumber(s, g.next + 1)
        head == /\ ExpectByte(s, i, CH_HASH)
                /\ n.ok /\ n.val = from
                /\ ExpectByte(s, n.next, CH_SEMI)
                /\ ExpectByte(s, n.next + 1, CH_ZERO + 2)
                /\ ExpectByte(s, n.next + 2, CH_SEMI)
                /\ r.ok /\ ExpectByte(s, r.next, CH_SEMI)
                /\ g.ok /\ ExpectByte(s, g.next, CH_SEMI)
                /\ b.ok
    IN IF ~head THEN [ok |-> FALSE, cols |-> <<>>, next |-> i]
       ELSE LET rest == ParseColourDefs(s, b.next, from + 1, count) IN
         [ok |-> rest.ok,
          cols |-> << <<r.val, g.val, b.val>> >> \o rest.cols,
          next |-> rest.next]

\* the sixel data of one colour row, as its units: a literal character is
\* the unit [n |-> 1, rle |-> FALSE], a token !<count><char> the unit
\* [n |-> count, rle |-> TRUE]
RECURSIVE ParseData(_, _)
ParseData(s, i) ==
  IF i <= Len(s) /\ IsSixelChar(s[i])
    THEN LET rest == ParseData(s, i + 1) IN
      [ok |-> rest.ok,
       units |-> <<[n |-> 1, mask |-> s[i] - SIXEL_BASE, rle |-> FALSE]>> \o rest.units,
       next |-> rest.next]
  ELSE IF i <= Len(s) /\ s[i] = CH_BANG
    THEN LET n == ParseNumber(s, i + 1) IN
      IF n.ok /\ n.next <= Len(s) /\ IsSixelChar(s[n.next])
        THEN LET rest == ParseData(s, n.next + 1) IN
          [ok |-> rest.ok,
           units |-> <<[n |-> n.val, mask |-> s[n.next] - SIXEL_BASE, rle |-> TRUE]>>
                       \o rest.units,
           next |-> rest.next]
        ELSE [ok |-> FALSE, units |-> <<>>, next |-> i]
  ELSE [ok |-> TRUE, units |-> <<>>, next |-> i]

\* one mask per column
RECURSIVE Expand(_)
Expand(units) ==
  IF units = <<>> THEN <<>>
  ELSE [c \in 1..Head(units).n |-> Head(units).mask] \o Expand(Tail(units))

\* "#k" and its data
ParseRow(s, i) ==
  LET k == ParseNumber(s, i + 1)
      d == ParseData(s, k.next)
  IN IF ExpectByte(s, i, CH_HASH) /\ k.ok /\ d.ok
       THEN [ok |-> TRUE,
             row |-> [k |-> k.val, units |-> d.units, masks |-> Expand(d.units)],
             next |-> d.next]
       ELSE [ok |-> FALSE, row |-> [k |-> 0, units |-> <<>>, masks |-> <<>>], next |-> i]

\* rows separated by one "$" each, up to the newline of the band "-"
RECURSIVE ParseRows(_, _)
ParseRows(s, i) ==
  LET r == ParseRow(s, i) IN
    IF ~r.ok THEN [ok |-> FALSE, rows |-> <<>>, next |-> i]
    ELSE IF ExpectByte(s, r.next, CH_DOLLAR)
      THEN LET rest == ParseRows(s, r.next + 1) IN
        [ok |-> rest.ok,
         rows |-> <<r.row>> \o rest.rows,
         next |-> rest.next]
    ELSE [ok |-> ExpectByte(s, r.next, CH_MINUS),
          rows |-> <<r.row>>,
          next |-> r.next + 1]

ParseBand(s, i) ==
  IF ExpectByte(s, i, CH_MINUS) THEN [ok |-> TRUE, rows |-> <<>>, next |-> i + 1]
  ELSE ParseRows(s, i)

RECURSIVE ParseBands(_, _, _)
ParseBands(s, i, nbands) ==
  IF nbands = 0 THEN [ok |-> TRUE, bands |-> <<>>, next |-> i]
  ELSE LET b == ParseBand(s, i) IN
    IF ~b.ok THEN [ok |-> FALSE, bands |-> <<>>, next |-> i]
    ELSE LET rest == ParseBands(s, b.next, nbands - 1) IN
      [ok |-> rest.ok, bands |-> <<b.rows>> \o rest.bands, next |-> rest.next]

NumBands(im) == (im.height + 5) \div 6

\* the whole stream: introducer, ncolours definitions, nbands bands; what
\* follows the last band is returned as tail
ParseStream(s, ncolours, nbands) ==
  LET intro == Len(s) >= 6 /\ SubSeq(s, 1, 6) = <<ESC, 80, 57, CH_SEMI, 49, 113>>
      defs == ParseColourDefs(s, 7, 0, ncolours)
      body == ParseBands(s, defs.next, nbands)
  IN IF intro /\ defs.ok /\ body.ok
       THEN [ok |-> TRUE, cols |-> defs.cols, bands |-> body.bands,
             tail |-> SubSeq(s, body.next, Len(s))]
       ELSE [ok |-> FALSE, cols |-> <<>>, bands |-> <<>>, tail |-> <<>>]

(***************************************************************************)
(* Inputs of imshow: the indexed images whose values are indices of a      *)
(* colourmap of 1..MaxPalette entries, of every width and height with at   *)
(* most MaxPixels pixels for one or two colours, and two pixels less for   *)
(* each further colour.                                                    *)
(***************************************************************************)
PixelBudget(ncolours) ==
  IF ncolours <= 2 THEN MaxPixels ELSE MaxPixels - 2 * (ncolours - 2)

Shapes(ncolours) ==
  {s \in (1..MaxPixels) \X (1..MaxPixels) : s[1] * s[2] <= PixelBudget(ncolours)}

Image(x_dim, y_dim, values) ==
  {[width |-> x_dim, height |-> y_dim, px |-> f] :
     f \in [(0..(x_dim - 1)) \X (0..(y_dim - 1)) -> values]}

Images(ncolours) ==
  UNION {Image(s[1], s[2], 0..(ncolours - 1)) : s \in Shapes(ncolours)}

Palette(ncolours) == SubSeq(get_default_cmap, 1, ncolours)

(***************************************************************************)
(* Inputs of the Figure methods                                            *)
(***************************************************************************)
LineColours == {-1, 3}
SeriesSizes == {1, 3}
XYSizes == {2, 3}
TwoColours == << <<0,0,0>>, <<100,100,100>> >>
ThreeColours == << <<0,0,100>>, <<0,100,0>>, <<100,0,0>> >>
ColourMaps == {TwoColours, ThreeColours}

(***************************************************************************)
(* Plot (src/unnamed/part_003).  Its float values are modelled as integer  *)
(* multiples of 1/Unit; NAN is None.                                       *)
(***************************************************************************)
Unit == 100
NAN == None
lim_expand_by_factor == 1

PlotLimits == {<<0, 10 * Unit>>, <<-Unit, Unit>>}
PlotExpandBy == {0, lim_expand_by_factor}
PlotGrids == {2 * Unit}
PlotPoints == {<<0, 0>>, <<4 * Unit, 2 * Unit>>}
PlotSeries == {<<Unit>>, <<Unit, 5 * Unit, 2 * Unit>>}
PlotXSeries == {<<0, Unit>>, <<0, 2 * Unit, 3 * Unit>>}

\* std::min_element / std::max_element of a sequence that is not empty
RECURSIVE min_element(_)
min_element(v) ==
  IF Len(v) = 1 THEN v[1]
  ELSE LET m == min_element(Tail(v)) IN IF m < v[1] THEN m ELSE v[1]

RECURSIVE max_element(_)
max_element(v) ==
  IF Len(v) = 1 THEN v[1]
  ELSE LET m == max_element(Tail(v)) IN IF v[1] < m THEN m ELSE v[1]

\* Plot::reset, called by Plot::Plot
Plot ==
  /\ plot = [xlim |-> <<NAN, NAN>>, ylim |-> <<NAN, NAN>>,
             xgrid |-> NAN, ygrid |-> NAN, segments |-> 0, shown |-> 0]
  /\ plot_pc = "alive"
  /\ plot_last = [name |-> "Plot", args |-> <<>>, n |-> 0,
                  xlim_by |-> "none", ylim_by |-> "none"]

\* Plot::set_xlim and Plot::set_ylim on the pair (lim, grid) of their axis;
\* expand_by is given in tenths
\* variant: the limits are set again without the test
set_lim_unguarded(lim, grid_interval, min, max, expand_by) ==
  LET delta == (expand_by * (max - min)) \div 10 IN
    [thrown |-> FALSE,
     lim |-> <<min - delta, max + delta>>,
     grid |-> IF ~isfinite(grid_interval)
                THEN ((max + delta) - (min - delta)) \div 5
                ELSE grid_interval]

set_lim(lim, grid_interval, min, max, expand_by) ==
  IF isfinite(lim[1]) \/ isfinite(lim[2])
    THEN \* throw std::runtime_error ("xlim already set ...")
         [thrown |-> TRUE, lim |-> lim, grid |-> grid_interval]
    ELSE LET delta == (expand_by * (max - min)) \div 10 IN
      [thrown |-> FALSE,
       lim |-> <<min - delta, max + delta>>,
       grid |-> IF ~isfinite(grid_interval)
                  THEN ((max + delta) - (min - delta)) \div 5
                  ELSE grid_interval]

\* the head of the three add_line: the limits that are not finite are set,
\* x first; the exception of set_xlim leaves the y axis untouched.  The
\* result is the Plot after the head, and whether an exception left it.
add_line_limits(p, x_min, x_max, x_expand, y_min, y_max, y_expand) ==
  LET sx == IF ~isfinite(p.xlim[1]) \/ ~isfinite(p.xlim[2])
              THEN set_lim(p.xlim, p.xgrid, x_min, x_max, x_expand)
              ELSE [thrown |-> FALSE, lim |-> p.xlim, grid |-> p.xgrid]
      sy == IF sx.thrown THEN [thrown |-> TRUE, lim |-> p.ylim, grid |-> p.ygrid]
            ELSE IF ~isfinite(p.ylim[1]) \/ ~isfinite(p.ylim[2])
              THEN set_lim(p.ylim, p.ygrid, y_min, y_max, y_expand)
              ELSE [thrown |-> FALSE, lim |-> p.ylim, grid |-> p.ygrid]
  IN [thrown |-> sy.thrown,
      plot |-> [p EXCEPT !.xlim = sx.lim, !.xgrid = sx.grid,
                         !.ylim = sy.lim, !.ygrid = sy.grid]]

(***************************************************************************)
(* The canvas: an Image<ctype> of CanvasWidth x CanvasHeight pixels, all   *)
(* of one value (0 after construction).  INT_MIN is what the conversion of *)
(* a NaN to int gives on x86.                                              *)
(***************************************************************************)
CanvasWidth == 24
CanvasHeight == 18
INT_MIN == -2147483647 - 1

Canvas(fill) ==
  [width |-> CanvasWidth, height |-> CanvasHeight,
   px |-> [p \in (0..(CanvasWidth - 1)) \X (0..(CanvasHeight - 1)) |-> fill]]

NotPainting ==
  /\ canvas = Canvas(0)
  /\ build = [nan_to_int |-> INT_MIN]
  /\ painted = [name |-> "none"]

NotShown == layout = [shown |-> FALSE]
NotCalled == calc = [name |-> "none"]

(***************************************************************************)
(* Pixel coordinates are floats: they are modelled as fractions <<n, d>>   *)
(* with d > 0, computed exactly.  The coordinates drawn from the input     *)
(* sets are multiples of 1/2, for which no operation of line_x rounds to   *)
(* the other side of an integer or of a half.                              *)
(***************************************************************************)
Q(n, d) == <<n, d>>
QInt(n) == <<n, 1>>
QLess(a, b) == a[1] * b[2] < b[1] * a[2]
QAdd(a, b) == <<a[1] * b[2] + b[1] * a[2], a[2] * b[2]>>
QSub(a, b) == <<a[1] * b[2] - b[1] * a[2], a[2] * b[2]>>
QMul(a, b) == <<a[1] * b[1], a[2] * b[2]>>
\* a / b for b # 0
QDiv(a, b) ==
  IF b[1] > 0 THEN <<a[1] * b[2], a[2] * b[1]>>
  ELSE <<-(a[1] * b[2]), -(a[2] * b[1])>>
\* std::abs
QAbs(a) == IF a[1] < 0 THEN <<-a[1], a[2]>> ELSE a
\* std::round: to the nearest integer, halves away from zero
QRound(a) ==
  IF a[1] >= 0 THEN (2 * a[1] + a[2]) \div (2 * a[2])
  ELSE -((2 * (-a[1]) + a[2]) \div (2 * a[2]))
\* static_cast<int>: towards zero
QTrunc(a) ==
  IF a[1] >= 0 THEN a[1] \div a[2] ELSE -((-a[1]) \div a[2])
Max(a, b) == IF a < b THEN b ELSE a

(***************************************************************************)
(* line_x: the columns x of the loop, the stiple test, the row of a column *)
(* and the write guarded by the height of the canvas.  The result is the   *)
(* set of the pixels (x, y) of the view that are assigned colour_index.    *)
(***************************************************************************)
\* variant: the end points are taken in the order given
line_x_swap_never(x0, y0, x1, y1) ==
  [x0 |-> x0, y0 |-> y0, x1 |-> x1, y1 |-> y1]

\* if (x0 > x1) swap
line_x_swap(x0, y0, x1, y1) ==
  IF QLess(x1, x0)
    THEN [x0 |-> x1, y0 |-> y1, x1 |-> x0, y1 |-> y0]
    ELSE [x0 |-> x0, y0 |-> y0, x1 |-> x1, y1 |-> y1]

\* variant: one more column of each period is drawn
stiple_skip_late(x, stiple, stiple_frac) ==
  stiple > 0 /\ QLess(QMul(stiple_frac, QInt(stiple)), QInt(x % stiple))

\* if (stiple > 0) if (x%stiple >= stiple_frac*stiple) continue
stiple_skip(x, stiple, stiple_frac) ==
  stiple > 0 /\ ~QLess(QInt(x % stiple), QMul(stiple_frac, QInt(stiple)))

\* int y = std::round (y0 + y_range*(x-x0)/x_range); a line of no length
\* has x_range = 0 and y_range = 0: the quotient is a NaN, whose conversion
\* to int is what the build makes of it
line_x_row(e, x, nan_to_int) ==
  LET x_range == QSub(e.x1, e.x0)
      y_range == QSub(e.y1, e.y0)
  IN IF x_range[1] = 0 THEN nan_to_int
     ELSE QRound(QAdd(e.y0, QDiv(QMul(y_range, QSub(QInt(x), e.x0)), x_range)))

line_x_columns(e, width) ==
  Max(QRound(e.x0), 0)..(Min(QTrunc(QAdd(e.x1, QInt(1))), width) - 1)

\* variant: the row is not compared with the height of the canvas
line_x_unclipped(width, height, x0, y0, x1, y1, stiple, stiple_frac, nan_to_int) ==
  LET e == line_x_swap(x0, y0, x1, y1) IN
    {<<x, line_x_row(e, x, nan_to_int)>> :
       x \in {c \in line_x_columns(e, width) : ~stiple_skip(c, stiple, stiple_frac)}}

line_x(width, height, x0, y0, x1, y1, stiple, stiple_frac, nan_to_int) ==
  LET e == line_x_swap(x0, y0, x1, y1) IN
    {p \in {<<x, line_x_row(e, x, nan_to_int)>> :
              x \in {c \in line_x_columns(e, width) : ~stiple_skip(c, stiple, stiple_frac)}} :
       p[2] >= 0 /\ p[2] < height}

(***************************************************************************)
(* render_line: the pixels of the canvas that are assigned colour_index.   *)
(* A line closer to the vertical is drawn by line_x on the transposed view *)
(* of the canvas.                                                          *)
(***************************************************************************)
render_line(cv, x0, y0, x1, y1, stiple, stiple_frac, nan_to_int) ==
  LET transposed == QLess(QAbs(QSub(x1, x0)), QAbs(QSub(y1, y0))) IN
    IF transposed
      THEN {<<p[2], p[1]>> :
              p \in line_x(cv.height, cv.width, y0, x0, y1, x1,
                           stiple, stiple_frac, nan_to_int)}
      ELSE line_x(cv.width, cv.height, x0, y0, x1, y1, stiple, stiple_frac, nan_to_int)

\* canvas(x,y) = colour_index for the pixels written
assign(cv, pixels, colour_index) ==
  [cv EXCEPT !.px = [p \in DOMAIN cv.px |->
                       IF p \in pixels THEN colour_index % CTYPE_MOD ELSE cv.px[p]]]

(***************************************************************************)
(* Font: the 8x16 font of get_font, one bit per pixel, the rows of a glyph *)
(* one after the other.  The array has 3420 entries; those after the       *)
(* values listed are 0.                                                    *)
(***************************************************************************)
FONT_WIDTH == 8
FONT_HEIGHT == 16
UNIFONT_SIZE == 3420
MAPPING_SIZE == 128

unifont8x16 ==
<<
   0, 0, 0, 0, 0, 0, 0, 0, 0, 0, 0, 0, 0, 0, 0, 0, 0, 0, 0, 8, 8, 8, 8, 8,
   8, 8, 0, 8, 8, 0, 0, 0, 0, 34, 34, 34, 34, 0, 0, 0, 0, 0, 0, 0, 0, 0, 0, 0,
   0, 0, 0, 36, 36, 36, 63, 18, 18, 63, 9, 9, 9, 0, 0, 0, 0, 0, 0, 8, 62, 73, 9, 14,
   56, 72, 73, 62, 8, 0, 0, 0, 0, 0, 0, 70, 41, 41, 22, 8, 8, 52, 74, 74, 49, 0, 0, 0,
   0, 0, 0, 28, 34, 34, 20, 12, 74, 81, 33, 49, 78, 0, 0, 0, 0, 12, 8, 8, 4, 0, 0, 0,
   0, 0, 0, 0, 0, 0, 0, 0, 0, 0, 16, 8, 8, 4, 4, 4, 4, 4, 4, 8, 8, 16, 0, 0,
   0, 0, 2, 4, 4, 8, 8, 8, 8, 8, 8, 4, 4, 2, 0, 0, 0, 0, 0, 0, 0, 8, 73, 42,
   28, 42, 73, 8, 0, 0, 0, 0, 0, 0, 0, 0, 0, 8, 8, 8, 127, 8, 8, 8, 0, 0, 0, 0,
   0, 0, 0, 0, 0, 0, 0, 0, 0, 0, 0, 12, 8, 8, 4, 0, 0, 0, 0, 0, 0, 0, 0, 0,
   30, 0, 0, 0, 0, 0, 0, 0, 0, 0, 0, 0, 0, 0, 0, 0, 0, 0, 0, 12, 12, 0, 0, 0,
   0, 0, 0, 32, 32, 16, 8, 8, 4, 4, 2, 1, 1, 0, 0, 0, 0, 0, 0, 12, 18, 33, 49, 41,
   37, 35, 33, 18, 12, 0, 0, 0, 0, 0, 0, 8, 12, 10, 8, 8, 8, 8, 8, 8, 62, 0, 0, 0,
   0, 0, 0, 30, 33, 33, 32, 24, 4, 2, 1, 1, 63, 0, 0, 0, 0, 0, 0, 30, 33, 33, 32, 28,
   32, 32, 33, 33, 30, 0, 0, 0, 0, 0, 0, 16, 24, 20, 18, 17, 17, 63, 16, 16, 16, 0, 0, 0,
   0, 0, 0, 63, 1, 1, 1, 31, 32, 32, 32, 33, 30, 0, 0, 0, 0, 0, 0, 28, 2, 1, 1, 31,
   33, 33, 33, 33, 30, 0, 0, 0, 0, 0, 0, 63, 32, 32, 16, 16, 16, 8, 8, 8, 8, 0, 0, 0,
   0, 0, 0, 30, 33, 33, 33, 30, 33, 33, 33, 33, 30, 0, 0, 0, 0, 0, 0, 30, 33, 33, 33, 62,
   32, 32, 32, 16, 14, 0, 0, 0, 0, 0, 0, 0, 0, 12, 12, 0, 0, 0, 12, 12, 0, 0, 0, 0,
   0, 0, 0, 0, 0, 12, 12, 0, 0, 0, 12, 8, 8, 4, 0, 0, 0, 0, 0, 0, 32, 16, 8, 4,
   2, 4, 8, 16, 32, 0, 0, 0, 0, 0, 0, 0, 0, 0, 63, 0, 0, 0, 63, 0, 0, 0, 0, 0,
   0, 0, 0, 0, 1, 2, 4, 8, 16, 8, 4, 2, 1, 0, 0, 0, 0, 0, 0, 30, 33, 33, 32, 16,
   8, 8, 0, 8, 8, 0, 0, 0, 0, 0, 0, 28, 34, 41, 53, 37, 37, 37, 57, 2, 60, 0, 0, 0,
   0, 0, 0, 12, 18, 18, 33, 33, 63, 33, 33, 33, 33, 0, 0, 0, 0, 0, 0, 31, 33, 33, 33, 31,
   33, 33, 33, 33, 31, 0, 0, 0, 0, 0, 0, 30, 33, 33, 1, 1, 1, 1, 33, 33, 30, 0, 0, 0,
   0, 0, 0, 15, 17, 33, 33, 33, 33, 33, 33, 17, 15, 0, 0, 0, 0, 0, 0, 63, 1, 1, 1, 31,
   1, 1, 1, 1, 63, 0, 0, 0, 0, 0, 0, 63, 1, 1, 1, 31, 1, 1, 1, 1, 1, 0, 0, 0,
   0, 0, 0, 30, 33, 33, 1, 1, 57, 33, 33, 49, 46, 0, 0, 0, 0, 0, 0, 33, 33, 33, 33, 63,
   33, 33, 33, 33, 33, 0, 0, 0, 0, 0, 0, 62, 8, 8, 8, 8, 8, 8, 8, 8, 62, 0, 0, 0,
   0, 0, 0, 124, 16, 16, 16, 16, 16, 16, 17, 17, 14, 0, 0, 0, 0, 0, 0, 33, 17, 9, 5, 3,
   3, 5, 9, 17, 33, 0, 0, 0, 0, 0, 0, 1, 1, 1, 1, 1, 1, 1, 1, 1, 63, 0, 0, 0,
   0, 0, 0, 33, 33, 51, 51, 45, 45, 33, 33, 33, 33, 0, 0, 0, 0, 0, 0, 33, 35, 35, 37, 37,
   41, 41, 49, 49, 33, 0, 0, 0, 0, 0, 0, 30, 33, 33, 33, 33, 33, 33, 33, 33, 30, 0, 0, 0,
   0, 0, 0, 31, 33, 33, 33, 31, 1, 1, 1, 1, 1, 0, 0, 0, 0, 0, 0, 30, 33, 33, 33, 33,
   33, 33, 45, 51, 30, 96, 0, 0, 0, 0, 0, 31, 33, 33, 33, 31, 9, 17, 17, 33, 33, 0, 0, 0,
   0, 0, 0, 30, 33, 33, 1, 6, 24, 32, 33, 33, 30, 0, 0, 0, 0, 0, 0, 127, 8, 8, 8, 8,
   8, 8, 8, 8, 8, 0, 0, 0, 0, 0, 0, 33, 33, 33, 33, 33, 33, 33, 33, 33, 30, 0, 0, 0,
   0, 0, 0, 65, 65, 65, 34, 34, 34, 20, 20, 8, 8, 0, 0, 0, 0, 0, 0, 33, 33, 33, 33, 45,
   45, 51, 51, 33, 33, 0, 0, 0, 0, 0, 0, 33, 33, 18, 18, 12, 12, 18, 18, 33, 33, 0, 0, 0,
   0, 0, 0, 65, 65, 34, 34, 20, 8, 8, 8, 8, 8, 0, 0, 0, 0, 0, 0, 63, 32, 32, 16, 8,
   4, 2, 1, 1, 63, 0, 0, 0, 0, 0, 56, 8, 8, 8, 8, 8, 8, 8, 8, 8, 8, 56, 0, 0,
   0, 0, 0, 1, 1, 2, 4, 4, 8, 8, 16, 32, 32, 0, 0, 0, 0, 0, 7, 4, 4, 4, 4, 4,
   4, 4, 4, 4, 4, 7, 0, 0, 0, 12, 18, 33, 0, 0, 0, 0, 0, 0, 0, 0, 0, 0, 0, 0,
   0, 0, 0, 0, 0, 0, 0, 0, 0, 0, 0, 0, 0, 127, 0, 0, 0, 8, 4, 4, 12, 0, 0, 0,
   0, 0, 0, 0, 0, 0, 0, 0, 0, 0, 0, 0, 0, 30, 33, 32, 62, 33, 33, 49, 46, 0, 0, 0,
   0, 0, 1, 1, 1, 29, 35, 33, 33, 33, 33, 35, 29, 0, 0, 0, 0, 0, 0, 0, 0, 30, 33, 1,
   1, 1, 1, 33, 30, 0, 0, 0, 0, 0, 32, 32, 32, 46, 49, 33, 33, 33, 33, 49, 46, 0, 0, 0,
   0, 0, 0, 0, 0, 30, 33, 33, 63, 1, 1, 33, 30, 0, 0, 0, 0, 0, 24, 4, 4, 4, 31, 4,
   4, 4, 4, 4, 4, 0, 0, 0, 0, 0, 0, 0, 32, 46, 17, 17, 17, 14, 2, 30, 33, 33, 30, 0,
   0, 0, 1, 1, 1, 29, 35, 33, 33, 33, 33, 33, 33, 0, 0, 0, 0, 0, 8, 8, 0, 12, 8, 8,
   8, 8, 8, 8, 62, 0, 0, 0, 0, 0, 16, 16, 0, 24, 16, 16, 16, 16, 16, 16, 16, 9, 6, 0,
   0, 0, 1, 1, 1, 17, 9, 5, 3, 5, 9, 17, 33, 0, 0, 0, 0, 0, 12, 8, 8, 8, 8, 8,
   8, 8, 8, 8, 62, 0, 0, 0, 0, 0, 0, 0, 0, 55, 73, 73, 73, 73, 73, 73, 73, 0, 0, 0,
   0, 0, 0, 0, 0, 29, 35, 33, 33, 33, 33, 33, 33, 0, 0, 0, 0, 0, 0, 0, 0, 30, 33, 33,
   33, 33, 33, 33, 30, 0, 0, 0, 0, 0, 0, 0, 0, 29, 35, 33, 33, 33, 33, 35, 29, 1, 1, 0,
   0, 0, 0, 0, 0, 46, 49, 33, 33, 33, 33, 49, 46, 32, 32, 0, 0, 0, 0, 0, 0, 29, 35, 33,
   1, 1, 1, 1, 1, 0, 0, 0, 0, 0, 0, 0, 0, 30, 33, 1, 6, 24, 32, 33, 30, 0, 0, 0,
   0, 0, 0, 4, 4, 4, 31, 4, 4, 4, 4, 4, 24, 0, 0, 0, 0, 0, 0, 0, 0, 33, 33, 33,
   33, 33, 33, 49, 46, 0, 0, 0, 0, 0, 0, 0, 0, 33, 33, 33, 18, 18, 18, 12, 12, 0, 0, 0,
   0, 0, 0, 0, 0, 65, 73, 73, 73, 73, 73, 73, 54, 0, 0, 0, 0, 0, 0, 0, 0, 33, 33, 18,
   12, 12, 18, 33, 33, 0, 0, 0, 0, 0, 0, 0, 0, 33, 33, 33, 33, 33, 50, 44, 32, 32, 30, 0,
   0, 0, 0, 0, 0, 63, 32, 16, 8, 4, 2, 1, 63, 0, 0, 0, 0, 0, 24, 4, 4, 8, 8, 4,
   2, 4, 8, 8, 4, 4, 24, 0, 0, 8, 8, 8, 8, 8, 8, 8, 8, 8, 8, 8, 8, 8, 8, 0,
   0, 0, 6, 8, 8, 4, 4, 8, 16, 8, 4, 4, 8, 8, 6, 0, 0, 0, 70, 73
>>

\* the table `mapping` of Font::render: 0 for the 33 characters up to the
\* space, 1 .. 94 for the characters 33 .. 126, 0 for the character 127
mapping == [k \in 0..(MAPPING_SIZE - 1) |-> IF 33 <= k /\ k <= 126 THEN k - 32 ELSE 0]

\* Font::get.  A read outside the array, or a shift by a negative count,
\* is undefined: it gives the bit garbage.
Font_get(offset, x, y, garbage) ==
  LET o == FONT_WIDTH * (y + FONT_HEIGHT * offset) + x
      index == IF o >= 0 THEN o \div 8 ELSE -((-o) \div 8)
      shift == o - index * 8
  IN IF index < 0 \/ index >= UNIFONT_SIZE \/ shift < 0 THEN garbage.bit
     ELSE IF index >= Len(unifont8x16) THEN FALSE
     ELSE (unifont8x16[index + 1] \div (2^shift)) % 2 = 1

\* c = mapping[static_cast<int>(c)]: a char below 0 or above 127 reads
\* outside the table, which is undefined: it gives the char garbage.glyph
Font_lookup(c, garbage) ==
  IF c \in DOMAIN mapping THEN mapping[c] ELSE garbage.glyph

\* the loops of Font::render: the part of the box of the glyph, placed at
\* (x, y), that lies on the canvas
Font_box(cv, x, y) ==
  {<<x + i, y + j>> :
     i \in Max(0, -x)..(FONT_WIDTH - Max(0, FONT_WIDTH + x - cv.width) - 1),
     j \in Max(0, -y)..(FONT_HEIGHT - Max(0, y + FONT_HEIGHT - cv.height) - 1)}

\* Font::render: the pixels of the canvas that are assigned colour_index
\* variant: every pixel of the box is assigned
Font_render_opaque(cv, c, x, y, garbage) == Font_box(cv, x, y)

Font_render(cv, c, x, y, garbage) ==
  LET glyph == Font_lookup(c, garbage) IN
    {p \in Font_box(cv, x, y) : Font_get(glyph, p[1] - x, p[2] - y, garbage)}

(***************************************************************************)
(* Inputs of render_line and Font::render: end points and origins on, at   *)
(* the border of and outside the canvas; solid and dashed lines; chars of   *)
(* the table (a control character, the space, A, 1, ~, 127) and the        *)
(* byte 0xC8 as a signed and as an unsigned char.                          *)
(***************************************************************************)
Backgrounds == {0, 9}
NanToInt == {INT_MIN, 0}
LineXs == {Q(-6, 2), Q(0, 2), Q(11, 2), Q(2 * (CanvasWidth - 1), 2), Q(2 * (CanvasWidth + 6), 2)}
LineYs == {Q(-4, 2), Q(0, 2), Q(17, 2), Q(2 * (CanvasHeight - 1), 2), Q(2 * (CanvasHeight + 2), 2)}
LinePoints == LineXs \X LineYs
Stiples ==
  {[stiple |-> 0, stiple_frac |-> Q(1, 2)], [stiple |-> 10, stiple_frac |-> Q(3, 10)],
   [stiple |-> 10, stiple_frac |-> Q(1, 10)], [stiple |-> 4, stiple_frac |-> Q(1, 2)]}
PaintColours == {1, 3}
Chars == {10, 32, 49, 65, 126, 127, -56, 200}
GlyphXs == {-3, 0, CanvasWidth - 10, CanvasWidth - 4, CanvasWidth}
GlyphYs == {-5, 0, CanvasHeight - 16, CanvasHeight - 8, CanvasHeight}
Garbage == [glyph : {0, 33, -1}, bit : BOOLEAN]

(***************************************************************************)
(* Rescale::operator(): the value v of the wrapped image at (x, y), as a   *)
(* fraction, rescaled in double, limited by std::max and std::min and      *)
(* rounded; max - min is not 0.                                            *)
(***************************************************************************)
QMax(a, b) == IF QLess(a, b) THEN b ELSE a
QMin(a, b) == IF QLess(b, a) THEN b ELSE a

\* variant: the upper limit is cmap_size
Rescale_to_size(v, min, max, cmap_size) ==
  LET rescaled == QDiv(QMul(QInt(cmap_size), QSub(v, min)), QSub(max, min)) IN
    QRound(QMin(QMax(rescaled, QInt(0)), QInt(cmap_size))) % CTYPE_MOD

Rescale(v, min, max, cmap_size) ==
  LET rescaled == QDiv(QMul(QInt(cmap_size), QSub(v, min)), QSub(max, min)) IN
    QRound(QMin(QMax(rescaled, QInt(0)), QSub(QInt(cmap_size), QInt(1)))) % CTYPE_MOD

(***************************************************************************)
(* clamp and gray (ColourMap implementation), for number >= 2.             *)
(***************************************************************************)
clamp(val, number) ==
  QRound(QMin(QMax(QMul(Q(100, number), QInt(val)), QInt(0)), QInt(number))) % CTYPE_MOD

gray(number) ==
  [n \in 1..number |->
     LET c == clamp(n - 1, number - 1) IN <<c, c, c>>]

(***************************************************************************)
(* Inputs of get_colour_in_cmap: the size of m_colourmap and colour_index. *)
(***************************************************************************)
MaxColourIndex == 12
CmapSizes == {1, 2, 3, 4, 8}
ColourIndices == 0..MaxColourIndex

(***************************************************************************)
(* Inputs of Rescale (image values, min < max, size of the colourmap) and  *)
(* of gray.                                                                *)
(***************************************************************************)
MaxHalves == 12
RescaleValues == {Q(n, 2) : n \in (-4)..MaxHalves}
RescaleLimits == {<<QInt(0), QInt(4)>>, <<QInt(-1), Q(5, 2)>>}
RescaleSizes == {1, 2, 3, 8}
GrayNumbers == {2, 3, 4, 101, 102}

(***************************************************************************)
(* Inputs of the colour loop of encode: the sizes of the colourmap, up to  *)
(* the 256 entries that a ctype can index; the loop is followed for at     *)
(* most MaxIterations iterations.                                          *)
(***************************************************************************)
MaxIterations == 300
EncodeSizes == {1, 2, 3, 255, 256}

(***************************************************************************)
(* Figure::Figure with the default size of figure(), and the default       *)
(* member initialisers.                                                    *)
(***************************************************************************)
Figure ==
  /\ m_canvas_size = <<600, 200>>
  /\ m_colourmap = get_default_cmap
  /\ m_zero_is_transparent = TRUE
  /\ m_tick_spacing = <<None, None>>
  /\ m_grid = <<TRUE, TRUE>>
  /\ m_xlim = <<Inf, -Inf>>
  /\ m_ylim = <<Inf, -Inf>>
  /\ m_elements = <<>>
  /\ fig = "alive"
  /\ frames = <<>>
  /\ last_call = [name |-> "Figure", args |-> <<>>]
  /\ ncalls = 0
  /\ nadded = 0
  /\ rendered = FALSE
  /\ at_throw = [nframes |-> 0, pending |-> 0]
  /\ unwound = FALSE

InitImshow ==
  /\ \E ncolours \in 1..MaxPalette :
        /\ cmap = Palette(ncolours)
        /\ image \in Images(ncolours)
  /\ zero_is_transparent \in BOOLEAN
  /\ out = <<>>
  /\ pc = "ready"
  /\ Figure
  /\ Plot
  /\ NotPainting
  /\ NotShown
  /\ NotCalled

InitFigure ==
  /\ cmap = Palette(1)
  /\ image \in Image(1, 1, {0})
  /\ zero_is_transparent = FALSE
  /\ out = <<>>
  /\ pc = "ready"
  /\ Figure
  /\ Plot
  /\ NotPainting
  /\ NotShown
  /\ NotCalled

(***************************************************************************)
(* A call of imshow (image, cmap, zero_is_transparent)                     *)
(***************************************************************************)
call_imshow ==
  /\ pc = "ready"
  /\ out' = out \o imshow(image, cmap, zero_is_transparent)
  /\ pc' = "done"
  /\ UNCHANGED <<image, cmap, zero_is_transparent, figure_vars, side_vars>>

(***************************************************************************)
(* The Figure methods.  Each returns *this; called records the call.       *)
(***************************************************************************)
called(name, args) ==
  /\ last_call' = [name |-> name, args |-> args]
  /\ ncalls' = ncalls + 1

callable == fig = "alive" /\ ncalls < MaxCalls

push_back(el) ==
  /\ m_elements' = Append(m_elements,
        [kind |-> el.kind, colour_index |-> el.colour_index, size |-> el.size,
         id |-> nadded + 1])
  /\ nadded' = nadded + 1
  /\ rendered' = FALSE

line ==
  /\ callable
  /\ \E colour_index \in LineColours :
        push_back([kind |-> "Line", colour_index |-> colour_index, size |-> 2])
  /\ called("line", <<>>)
  /\ UNCHANGED <<imshow_vars, side_vars, settings, fig, frames, at_throw, unwound>>

plot_y ==
  /\ callable
  /\ \E n \in SeriesSizes :
        /\ push_back([kind |-> "YPlot", colour_index |-> -1, size |-> n])
        /\ called("plot(y)", <<n>>)
  /\ UNCHANGED <<imshow_vars, side_vars, settings, fig, frames, at_throw, unwound>>

\* variant: the element is appended before the sizes are compared
plot_xy_body_push_first(x_size, y_size) ==
  /\ push_back([kind |-> "XYPlot", colour_index |-> -1, size |-> y_size])
  /\ IF x_size # y_size
       THEN /\ fig' = "thrown"
            /\ at_throw' = [nframes |-> Len(frames), pending |-> Len(m_elements)]
       ELSE UNCHANGED <<fig, at_throw>>

plot_xy_body(x_size, y_size) ==
  IF x_size # y_size
    THEN \* throw std::runtime_error ("X & Y dimensions do not match")
         /\ fig' = "thrown"
         /\ at_throw' = [nframes |-> Len(frames), pending |-> Len(m_elements)]
         /\ UNCHANGED <<m_elements, nadded, rendered>>
    ELSE /\ push_back([kind |-> "XYPlot", colour_index |-> -1, size |-> y_size])
         /\ UNCHANGED <<fig, at_throw>>

plot_xy ==
  /\ callable
  /\ \E x_size \in XYSizes, y_size \in XYSizes :
        /\ plot_xy_body(x_size, y_size)
        /\ called("plot(x,y)", <<x_size, y_size>>)
  /\ UNCHANGED <<imshow_vars, side_vars, settings, frames, unwound>>

text ==
  /\ callable
  /\ push_back([kind |-> "Text", colour_index |-> 1, size |-> 1])
  /\ called("text", <<>>)
  /\ UNCHANGED <<imshow_vars, side_vars, settings, fig, frames, at_throw, unwound>>

xlim ==
  /\ callable
  /\ \E x_min \in {0}, x_max \in {10} : m_xlim' = <<x_min, x_max>>
  /\ called("xlim", <<>>)
  /\ UNCHANGED <<imshow_vars, side_vars, m_canvas_size, m_colourmap, m_zero_is_transparent,
                 m_tick_spacing, m_grid, m_ylim, m_elements, fig, frames,
                 nadded, rendered, at_throw, unwound>>

ylim ==
  /\ callable
  /\ \E y_min \in {-1}, y_max \in {1} : m_ylim' = <<y_min, y_max>>
  /\ called("ylim", <<>>)
  /\ UNCHANGED <<imshow_vars, side_vars, m_canvas_size, m_colourmap, m_zero_is_transparent,
                 m_tick_spacing, m_grid, m_xlim, m_elements, fig, frames,
                 nadded, rendered, at_throw, unwound>>

xticks ==
  /\ callable
  /\ \E spacing \in {0} : m_tick_spacing' = <<spacing, m_tick_spacing[2]>>
  /\ called("xticks", <<>>)
  /\ UNCHANGED <<imshow_vars, side_vars, m_canvas_size, m_colourmap, m_zero_is_transparent,
                 m_grid, m_xlim, m_ylim, m_elements, fig, frames,
                 nadded, rendered, at_throw, unwound>>

yticks ==
  /\ callable
  /\ \E spacing \in {5} : m_tick_spacing' = <<m_tick_spacing[1], spacing>>
  /\ called("yticks", <<>>)
  /\ UNCHANGED <<imshow_vars, side_vars, m_canvas_size, m_colourmap, m_zero_is_transparent,
                 m_grid, m_xlim, m_ylim, m_elements, fig, frames,
                 nadded, rendered, at_throw, unwound>>

grid ==
  /\ callable
  /\ \E show_xgrid \in {FALSE}, show_ygrid \in {TRUE} : m_grid' = <<show_xgrid, show_ygrid>>
  /\ called("grid", <<>>)
  /\ UNCHANGED <<imshow_vars, side_vars, m_canvas_size, m_colourmap, m_zero_is_transparent,
                 m_tick_spacing, m_xlim, m_ylim, m_elements, fig, frames,
                 nadded, rendered, at_throw, unwound>>

colourmap ==
  /\ callable
  /\ \E cm \in ColourMaps : m_colourmap' = cm
  /\ called("colourmap", <<>>)
  /\ UNCHANGED <<imshow_vars, side_vars, m_canvas_size, m_zero_is_transparent,
                 m_tick_spacing, m_grid, m_xlim, m_ylim, m_elements, fig, frames,
                 nadded, rendered, at_throw, unwound>>

transparent ==
  /\ callable
  /\ \E is_transparent \in {FALSE} : m_zero_is_transparent' = is_transparent
  /\ called("transparent", <<>>)
  /\ UNCHANGED <<imshow_vars, side_vars, m_canvas_size, m_colourmap,
                 m_tick_spacing, m_grid, m_xlim, m_ylim, m_elements, fig, frames,
                 nadded, rendered, at_throw, unwound>>

(***************************************************************************)
(* Figure::show.  The loop of get_colour_in_cmap never ends when the       *)
(* colourmap has two entries (it subtracts size-2 = 0) and the index is    *)
(* not below the size; the default index of a line or series starts at 2.  *)
(* Otherwise the canvas is handed to imshow, which writes one image, and   *)
(* the elements are cleared.  m_done is neither read nor written.          *)
(***************************************************************************)
\* variant: every element takes the next default colour index
RECURSIVE resolve_colours_all_advance(_, _, _)
resolve_colours_all_advance(elements, n, next_colour_index) ==
  IF n > Len(elements) THEN <<>>
  ELSE IF elements[n].kind # "Text" /\ elements[n].colour_index < 0
    THEN <<next_colour_index>>
         \o resolve_colours_all_advance(elements, n + 1, next_colour_index + 1)
    ELSE <<elements[n].colour_index>>
         \o resolve_colours_all_advance(elements, n + 1, next_colour_index + 1)

RECURSIVE resolve_colours(_, _, _)
resolve_colours(elements, n, next_colour_index) ==
  IF n > Len(elements) THEN <<>>
  ELSE IF elements[n].kind # "Text" /\ elements[n].colour_index < 0
    THEN <<next_colour_index>> \o resolve_colours(elements, n + 1, next_colour_index + 1)
    ELSE <<elements[n].colour_index>> \o resolve_colours(elements, n + 1, next_colour_index)

get_colour_in_cmap_returns(colour_index, size) ==
  ~(size = 2 /\ colour_index >= size)

show_returns ==
  LET requested == resolve_colours(m_elements, 1, 2) IN
    \A n \in 1..Len(requested) :
      get_colour_in_cmap_returns(requested[n], Len(m_colourmap))

(***************************************************************************)
(* Figure::show in detail.  The data values (limits, spacings, coordinates *)
(* of the elements) are floats: they are modelled as integer multiples of  *)
(* 1/Unit, Inf and None apart, and the operations on them are exact.       *)
(* Pixel coordinates are fractions.                                        *)
(***************************************************************************)
FromData(v) == Q(v, Unit)
ToData(a) == (a[1] * Unit) \div a[2]

RECURSIVE pow10(_)
pow10(k) ==
  IF k = 0 THEN QInt(1)
  ELSE IF k > 0 THEN QMul(pow10(k - 1), QInt(10))
  ELSE QMul(pow10(k + 1), Q(1, 10))

\* std::floor (std::log10 (t)) for t > 0
RECURSIVE floor_log10(_)
floor_log10(t) ==
  IF ~QLess(t, QInt(10)) THEN floor_log10(QDiv(t, QInt(10))) + 1
  ELSE IF QLess(t, QInt(1)) THEN floor_log10(QMul(t, QInt(10))) - 1
  ELSE 0

\* Figure::compute_tick_spacing.  Limits that are not finite, or in the
\* wrong order, make log10 return a NaN, which the comparisons let through
\* to the last return; a range of 0 gives mult = 0 and the result 10*0.
\* variant: the thresholds 2 and 5 belong to the lower spacing
compute_tick_spacing_inclusive(lim, init_spacing) ==
  IF ~isfinite(lim[1]) \/ ~isfinite(lim[2]) THEN None
  ELSE LET tick == QDiv(FromData(lim[2] - lim[1]), init_spacing) IN
    IF tick[1] < 0 THEN None
    ELSE IF tick[1] = 0 THEN 0
    ELSE LET mult == pow10(floor_log10(tick))
             scaled == QDiv(tick, mult)
         IN IF ~QLess(QInt(2), scaled) THEN ToData(QMul(QInt(2), mult))
            ELSE IF ~QLess(QInt(5), scaled) THEN ToData(QMul(QInt(5), mult))
            ELSE ToData(QMul(QInt(10), mult))

compute_tick_spacing(lim, init_spacing) ==
  IF ~isfinite(lim[1]) \/ ~isfinite(lim[2]) THEN None
  ELSE LET tick == QDiv(FromData(lim[2] - lim[1]), init_spacing) IN
    IF tick[1] < 0 THEN None
    ELSE IF tick[1] = 0 THEN 0
    ELSE LET mult == pow10(floor_log10(tick))
             scaled == QDiv(tick, mult)
         IN IF QLess(scaled, QInt(2)) THEN ToData(QMul(QInt(2), mult))
            ELSE IF QLess(scaled, QInt(5)) THEN ToData(QMul(QInt(5), mult))
            ELSE ToData(QMul(QInt(10), mult))

\* Figure::refine_lim.  With a spacing of 0 (or a NaN) the quotients are
\* infinite (or NaN) and both products are NaN.
\* variant: both ends are moved inwards
refine_lim_inwards(lim, spacing) ==
  IF isfinite(spacing) /\ spacing > 0 /\ isfinite(lim[1]) /\ isfinite(lim[2])
    THEN <<spacing * (-((-lim[1]) \div spacing)), spacing * (lim[2] \div spacing)>>
    ELSE <<None, None>>

refine_lim(lim, spacing) ==
  IF isfinite(spacing) /\ spacing > 0 /\ isfinite(lim[1]) /\ isfinite(lim[2])
    THEN <<spacing * (lim[1] \div spacing), spacing * (-((-lim[2]) \div spacing))>>
    ELSE <<None, None>>

\* Figure::auto_xlim: the loop over m_elements, from element n on, with the
\* running value x.  Every series has at least one point.
\* variant: an index series contributes its count
RECURSIVE auto_xlim_count(_, _, _)
auto_xlim_count(elements, n, x) ==
  IF n > Len(elements) THEN x
  ELSE LET el == elements[n] IN
    auto_xlim_count(elements, n + 1,
      IF el.kind = "Line"
        THEN <<Min(x[1], Min(el.a[1], el.b[1])), Max(x[2], Max(el.a[1], el.b[1]))>>
      ELSE IF el.kind = "YPlot"
        THEN <<Min(x[1], 0), Max(x[2], Len(el.y) * Unit)>>
      ELSE IF el.kind = "XYPlot"
        THEN <<Min(x[1], min_element(el.x)), Max(x[2], max_element(el.x))>>
      ELSE x)

RECURSIVE auto_xlim_loop(_, _, _)
auto_xlim_loop(elements, n, x) ==
  IF n > Len(elements) THEN x
  ELSE LET el == elements[n] IN
    auto_xlim_loop(elements, n + 1,
      IF el.kind = "Line"
        THEN <<Min(x[1], Min(el.a[1], el.b[1])), Max(x[2], Max(el.a[1], el.b[1]))>>
      ELSE IF el.kind = "YPlot"
        THEN <<Min(x[1], 0), Max(x[2], (Len(el.y) - 1) * Unit)>>
      ELSE IF el.kind = "XYPlot"
        THEN <<Min(x[1], min_element(el.x)), Max(x[2], max_element(el.x))>>
      ELSE x)

auto_xlim(elements) == auto_xlim_loop(elements, 1, <<Inf, -Inf>>)

\* Figure::auto_ylim
RECURSIVE auto_ylim_loop(_, _, _)
auto_ylim_loop(elements, n, y) ==
  IF n > Len(elements) THEN y
  ELSE LET el == elements[n] IN
    auto_ylim_loop(elements, n + 1,
      IF el.kind = "Line"
        THEN <<Min(y[1], Min(el.a[2], el.b[2])), Max(y[2], Max(el.a[2], el.b[2]))>>
      ELSE IF el.kind \in {"YPlot", "XYPlot"}
        THEN <<Min(y[1], min_element(el.y)), Max(y[2], max_element(el.y))>>
      ELSE y)

auto_ylim(elements) == auto_ylim_loop(elements, 1, <<Inf, -Inf>>)

\* Figure::get_colour_in_cmap, for colour_index >= 0.  The subtraction is
\* made in size_t and the result converted to int.  With two entries it
\* subtracts 0 and the loop does not end (get_colour_in_cmap_returns, which
\* guards every use).  With one entry, size-2 is the largest size_t: every
\* iteration adds 1 modulo 2^32, and the values INT_MIN..-1 that follow
\* INT_MAX compare as large unsigned numbers, up to the value 0.
\* variant: the wraparound starts from index 1
RECURSIVE get_colour_in_cmap_from1(_, _)
get_colour_in_cmap_from1(colour_index, size) ==
  IF colour_index < size THEN colour_index
  ELSE IF size = 1 THEN 0
  ELSE get_colour_in_cmap_from1(colour_index - (size - 1), size)

RECURSIVE get_colour_in_cmap(_, _)
get_colour_in_cmap(colour_index, size) ==
  IF colour_index < size THEN colour_index
  ELSE IF size = 1 THEN 0
  ELSE get_colour_in_cmap(colour_index - (size - 2), size)

(***************************************************************************)
(* The layout of Figure::show: the margins around the plot area, in font   *)
(* cells of the font of Font::get_font, and the CanvasMapper from data     *)
(* values to pixel coordinates.  A coordinate that is not a number (a      *)
(* limit that is not finite, or limits of no extent) is QNaN.              *)
(***************************************************************************)
margin_left == 10 * FONT_WIDTH
margin_bottom == 2 * FONT_HEIGHT
margin_right == 3 * FONT_WIDTH
margin_top == 1 * FONT_HEIGHT
plot_width(canvas_size) == canvas_size[1] - margin_left - margin_right
plot_height(canvas_size) == canvas_size[2] - margin_bottom - margin_top

QNaN == <<0, 0>>
QFrac(n, d) == IF d > 0 THEN <<n, d>> ELSE <<-n, -d>>
QPlus(a, k) == IF a = QNaN THEN QNaN ELSE QAdd(a, QInt(k))

Mappable(v, lim) ==
  isfinite(v) /\ isfinite(lim[1]) /\ isfinite(lim[2]) /\ lim[1] # lim[2]

mapx(x, lim, width) ==
  IF Mappable(x, lim)
    THEN QFrac((width - 1) * (x - lim[1]), lim[2] - lim[1])
    ELSE QNaN

mapy(y, lim, height) ==
  IF Mappable(y, lim)
    THEN QFrac((height - 1) * ((lim[2] - lim[1]) - (y - lim[1])), lim[2] - lim[1])
    ELSE QNaN

\* CanvasMapper::operator(); m holds the members width, height, xlim, ylim
map(m, p) ==
  <<QPlus(mapx(p[1], m.xlim, m.width), margin_left),
    QPlus(mapy(p[2], m.ylim, m.height), margin_top)>>

\* the calls of render_line and render_text that show makes, as records
line_call(by, n, x0, y0, x1, y1, colour_index, stiple, stiple_frac) ==
  [call |-> "render_line", by |-> by, n |-> n,
   x0 |-> x0, y0 |-> y0, x1 |-> x1, y1 |-> y1,
   colour_index |-> colour_index, stiple |-> stiple, stiple_frac |-> stiple_frac]

text_call(by, n, legend, x, y, anchor_x, anchor_y, colour_index) ==
  [call |-> "render_text", by |-> by, n |-> n, text |-> legend,
   x |-> x, y |-> y, anchor_x |-> anchor_x, anchor_y |-> anchor_y,
   colour_index |-> colour_index]

\* the values of n of a tick loop: from ceil (lim[0]/spacing) while
\* n <= lim[1]/spacing; no value when a limit or the spacing is a NaN.
\* The spacing is positive whenever the limits are finite and lim[0] < lim[1].
tick_first(lim, spacing) == -((-lim[1]) \div spacing)
tick_last(lim, spacing) == lim[2] \div spacing
tick_loop(lim, spacing) ==
  IF isfinite(lim[1]) /\ isfinite(lim[2]) /\ isfinite(spacing) /\ spacing > 0
    THEN tick_first(lim, spacing)..tick_last(lim, spacing)
    ELSE {}

\* legend << std::setprecision (3) << value, with the text that follows it
legend(value, trailing) == [number |-> value, trailing |-> trailing]

\* the body of the loop "x ticks and gridlines" for one n
\* variant: the gridline is drawn only where the tick is
show_xtick_gated(m, n, xtick_spacing, grid_on, show_xticks) ==
  LET x == n * xtick_spacing
      a == map(m, <<x, m.ylim[1]>>)
      b == map(m, <<x, m.ylim[2]>>)
  IN (IF grid_on /\ show_xticks
        THEN <<line_call("xgrid", n, a[1], a[2], b[1], b[2], 1, 10,
                         IF n = 0 THEN Q(7, 10) ELSE Q(1, 10))>>
        ELSE <<>>)
     \o (IF show_xticks
           THEN <<text_call("xlabel", n, legend(x, ""), a[1], a[2], Q(1, 2), Q(3, 2), 1),
                  line_call("xtick", n, a[1], a[2], a[1], QPlus(a[2], -5), 1, 0, Q(1, 2))>>
           ELSE <<>>)

show_xtick(m, n, xtick_spacing, grid_on, show_xticks) ==
  LET x == n * xtick_spacing
      a == map(m, <<x, m.ylim[1]>>)
      b == map(m, <<x, m.ylim[2]>>)
  IN (IF grid_on
        THEN <<line_call("xgrid", n, a[1], a[2], b[1], b[2], 1, 10,
                         IF n = 0 THEN Q(7, 10) ELSE Q(1, 10))>>
        ELSE <<>>)
     \o (IF show_xticks
           THEN <<text_call("xlabel", n, legend(x, ""), a[1], a[2], Q(1, 2), Q(3, 2), 1),
                  line_call("xtick", n, a[1], a[2], a[1], QPlus(a[2], -5), 1, 0, Q(1, 2))>>
           ELSE <<>>)

\* the body of the loop "y ticks and gridlines" for one n
show_ytick(m, n, ytick_spacing, grid_on, show_yticks) ==
  LET y == n * ytick_spacing
      a == map(m, <<m.xlim[1], y>>)
      b == map(m, <<m.xlim[2], y>>)
  IN (IF grid_on
        THEN <<line_call("ygrid", n, a[1], a[2], b[1], b[2], 1, 10,
                         IF n = 0 THEN Q(7, 10) ELSE Q(1, 10))>>
        ELSE <<>>)
     \o (IF show_yticks
           THEN <<text_call("ylabel", n, legend(y, " "), a[1], a[2], Q(1, 1), Q(1, 2), 1),
                  line_call("ytick", n, a[1], a[2], QPlus(a[1], 5), a[2], 1, 0, Q(1, 2))>>
           ELSE <<>>)

RECURSIVE show_xticks_from(_, _, _, _, _, _)
show_xticks_from(m, n, last, xtick_spacing, grid_on, show_xticks) ==
  IF n > last THEN <<>>
  ELSE show_xtick(m, n, xtick_spacing, grid_on, show_xticks)
       \o show_xticks_from(m, n + 1, last, xtick_spacing, grid_on, show_xticks)

RECURSIVE show_yticks_from(_, _, _, _, _, _)
show_yticks_from(m, n, last, ytick_spacing, grid_on, show_yticks) ==
  IF n > last THEN <<>>
  ELSE show_ytick(m, n, ytick_spacing, grid_on, show_yticks)
       \o show_yticks_from(m, n + 1, last, ytick_spacing, grid_on, show_yticks)

\* "Render elements": the segments of the series el from point n on
RECURSIVE show_series(_, _, _, _)
show_series(m, el, n, colour_index) ==
  IF n >= Len(el.y) THEN <<>>
  ELSE LET px(k) == IF el.kind = "YPlot" THEN (k - 1) * Unit ELSE el.x[k]
           a == map(m, <<px(n), el.y[n]>>)
           b == map(m, <<px(n + 1), el.y[n + 1]>>)
       IN <<line_call("element", el.id, a[1], a[2], b[1], b[2],
                      colour_index, el.stiple, el.stiple_frac)>>
          \o show_series(m, el, n + 1, colour_index)

show_element(m, el, requested, size) ==
  LET colour_index == get_colour_in_cmap(requested, size) IN
    IF el.kind = "Line"
      THEN <<line_call("element", el.id, FromData(el.a[1]), FromData(el.a[2]),
                       FromData(el.b[1]), FromData(el.b[2]),
                       colour_index, el.stiple, el.stiple_frac)>>
    ELSE IF el.kind \in {"YPlot", "XYPlot"}
      THEN show_series(m, el, 1, colour_index)
    ELSE LET a == map(m, el.pos) IN
      <<text_call("element", el.id, el.text, a[1], a[2],
                  el.anchor[1], el.anchor[2], colour_index)>>

\* variant: the elements are rendered from the last to the first
RECURSIVE show_elements_reversed(_, _, _, _, _)
show_elements_reversed(m, elements, requested, size, n) ==
  IF n > Len(elements) THEN <<>>
  ELSE show_elements_reversed(m, elements, requested, size, n + 1)
       \o show_element(m, elements[n], requested[n], size)

RECURSIVE show_elements(_, _, _, _, _)
show_elements(m, elements, requested, size, n) ==
  IF n > Len(elements) THEN <<>>
  ELSE show_element(m, elements[n], requested[n], size)
       \o show_elements(m, elements, requested, size, n + 1)

\* what show computes before it hands the canvas to imshow
show_layout ==
  LET xlim_manual == isfinite(m_xlim[1]) /\ isfinite(m_xlim[2])
      ylim_manual == isfinite(m_ylim[1]) /\ isfinite(m_ylim[2])
      show_xticks == ~(m_tick_spacing[1] # None /\ m_tick_spacing[1] <= 0)
      show_yticks == ~(m_tick_spacing[2] # None /\ m_tick_spacing[2] <= 0)
      xlim0 == IF xlim_manual THEN m_xlim ELSE auto_xlim(m_elements)
      ylim0 == IF ylim_manual THEN m_ylim ELSE auto_ylim(m_elements)
      width == plot_width(m_canvas_size)
      height == plot_height(m_canvas_size)
      xspacing0 == compute_tick_spacing(xlim0, Q(width, 8 * FONT_WIDTH))
      yspacing0 == compute_tick_spacing(ylim0, Q(height, 2 * FONT_HEIGHT))
      xlim1 == IF xlim_manual THEN xlim0 ELSE refine_lim(xlim0, xspacing0)
      ylim1 == IF ylim_manual THEN ylim0 ELSE refine_lim(ylim0, yspacing0)
      xtick_spacing == IF isfinite(m_tick_spacing[1]) /\ m_tick_spacing[1] > 0
                         THEN m_tick_spacing[1] ELSE xspacing0
      ytick_spacing == IF isfinite(m_tick_spacing[2]) /\ m_tick_spacing[2] > 0
                         THEN m_tick_spacing[2] ELSE yspacing0
      m == [width |-> width, height |-> height, xlim |-> xlim1, ylim |-> ylim1]
      xs == tick_loop(xlim1, xtick_spacing)
      ys == tick_loop(ylim1, ytick_spacing)
  IN [shown |-> TRUE,
      xlim_manual |-> xlim_manual, ylim_manual |-> ylim_manual,
      auto |-> [xlim |-> xlim0, ylim |-> ylim0],
      init_spacing |-> <<Q(width, 8 * FONT_WIDTH), Q(height, 2 * FONT_HEIGHT)>>,
      spacing |-> <<xspacing0, yspacing0>>,
      xlim |-> xlim1, ylim |-> ylim1,
      xtick_spacing |-> xtick_spacing, ytick_spacing |-> ytick_spacing,
      calls |->
        (IF xs = {} THEN <<>>
         ELSE show_xticks_from(m, tick_first(xlim1, xtick_spacing),
                               tick_last(xlim1, xtick_spacing),
                               xtick_spacing, m_grid[1], show_xticks))
        \o (IF ys = {} THEN <<>>
            ELSE show_yticks_from(m, tick_first(ylim1, ytick_spacing),
                                  tick_last(ylim1, ytick_spacing),
                                  ytick_spacing, m_grid[2], show_yticks))
        \o show_elements(m, m_elements, resolve_colours(m_elements, 1, 2),
                         Len(m_colourmap), 1)]

(***************************************************************************)
(* Inputs of Figure::show: the elements that line, plot and text have      *)
(* added, with their data, and the settings.  Data values are multiples of *)
(* 1/Unit.  plot accepts a series of any size, the empty one included.     *)
(***************************************************************************)
MaxElements == 2

LayoutElements ==
  { [kind |-> "Line", colour_index |-> -1, size |-> 2,
     a |-> <<Unit, Unit>>, b |-> <<4 * Unit, 3 * Unit>>,
     stiple |-> 0, stiple_frac |-> Q(1, 2)],
    [kind |-> "YPlot", colour_index |-> -1, size |-> 3,
     y |-> <<Unit, 5 * Unit, 2 * Unit>>,
     stiple |-> 0, stiple_frac |-> Q(1, 2)],
    [kind |-> "YPlot", colour_index |-> -1, size |-> 1,
     y |-> <<3 * Unit>>,
     stiple |-> 0, stiple_frac |-> Q(1, 2)],
    [kind |-> "YPlot", colour_index |-> -1, size |-> 0,
     y |-> <<>>,
     stiple |-> 0, stiple_frac |-> Q(1, 2)],
    [kind |-> "XYPlot", colour_index |-> -1, size |-> 3,
     x |-> <<-250, 250, Unit>>, y |-> <<0, 37 * Unit, 10 * Unit>>,
     stiple |-> 0, stiple_frac |-> Q(1, 2)],
    [kind |-> "XYPlot", colour_index |-> 3, size |-> 2,
     x |-> <<0, 420>>, y |-> <<-50, 50>>,
     stiple |-> 0, stiple_frac |-> Q(1, 2)],
    [kind |-> "Text", colour_index |-> 1, size |-> 1,
     text |-> "A", pos |-> <<50, 50>>, anchor |-> <<Q(1, 2), Q(1, 2)>>] }

\* the sequences of at most n elements
RECURSIVE ElementSeqs(_)
ElementSeqs(n) ==
  IF n = 0 THEN {<<>>}
  ELSE LET shorter == ElementSeqs(n - 1) IN
    shorter \cup {Append(s, el) : s \in {t \in shorter : Len(t) = n - 1},
                                    el \in LayoutElements}

\* push_back gives the elements their ids in the order of the calls
Numbered(s) ==
  [n \in 1..Len(s) |-> [f \in DOMAIN s[n] \cup {"id"} |->
                          IF f = "id" THEN n ELSE s[n][f]]]

AutoLimits == <<Inf, -Inf>>
XLimits == {AutoLimits, <<0, 37 * Unit>>, <<0, 10 * Unit>>}
YLimits == {AutoLimits, <<0, 420>>}
XTickSpacings == {None, 0, 2 * Unit}
YTickSpacings == {None, -Unit}
Grids == {<<TRUE, TRUE>>, <<FALSE, TRUE>>, <<TRUE, FALSE>>, <<FALSE, FALSE>>}
CanvasSizes == {<<600, 200>>, <<424, 208>>}
LayoutColourMaps == {get_default_cmap, ThreeColours}

\* variant: the elements are not cleared after the render
show_body_keep_elements(caller) ==
  IF show_returns
    THEN /\ frames' = Append(frames,
                [elements |-> m_elements, colourmap |-> m_colourmap,
                 zero_is_transparent |-> m_zero_is_transparent,
                 canvas_size |-> m_canvas_size, by |-> caller])
         /\ UNCHANGED m_elements
         /\ rendered' = TRUE
    ELSE /\ UNCHANGED <<frames, m_elements, rendered>>

show_body(caller) ==
  IF show_returns
    THEN /\ frames' = Append(frames,
                [elements |-> m_elements, colourmap |-> m_colourmap,
                 zero_is_transparent |-> m_zero_is_transparent,
                 canvas_size |-> m_canvas_size, by |-> caller])
         /\ m_elements' = <<>>
         /\ rendered' = TRUE
    ELSE /\ UNCHANGED <<frames, m_elements, rendered>>

show ==
  /\ callable
  /\ show_body("show")
  /\ fig' = IF show_returns THEN fig ELSE "hung"
  /\ called("show", <<>>)
  /\ UNCHANGED <<imshow_vars, side_vars, settings, nadded, at_throw, unwound>>

(***************************************************************************)
(* Figure::~Figure: at the end of the scope, or while the stack is unwound *)
(* by an exception thrown by a method of the chain.                        *)
(***************************************************************************)
\* variant: a destructor that does not render
Figure_dtor_no_show ==
  /\ fig \in {"alive", "thrown"}
  /\ fig' = "destroyed"
  /\ unwound' = (fig = "thrown")
  /\ last_call' = [name |-> "~Figure", args |-> <<>>]
  /\ UNCHANGED <<imshow_vars, side_vars, session, frames, ncalls, nadded, rendered, at_throw>>

Figure_dtor ==
  /\ fig \in {"alive", "thrown"}
  /\ IF Len(m_elements) > 0
       THEN /\ show_body("~Figure")
            /\ fig' = IF show_returns THEN "destroyed" ELSE "hung"
       ELSE /\ fig' = "destroyed"
            /\ UNCHANGED <<frames, m_elements, rendered>>
  /\ unwound' = (fig = "thrown")
  /\ last_call' = [name |-> "~Figure", args |-> <<>>]
  /\ UNCHANGED <<imshow_vars, side_vars, settings, ncalls, nadded, at_throw>>

(***************************************************************************)
(* What the caller does with the exception: it catches it while the Figure *)
(* is still in scope, or nobody catches it and std::terminate ends the     *)
(* process, with or without unwinding (the third case is Figure_dtor).     *)
(***************************************************************************)
catch_error ==
  /\ fig = "thrown"
  /\ fig' = "alive"
  /\ UNCHANGED <<imshow_vars, side_vars, session, frames, history>>

terminate ==
  /\ fig = "thrown"
  /\ fig' = "terminated"
  /\ UNCHANGED <<imshow_vars, side_vars, session, frames, history>>

NextImshow == call_imshow

NextFigure ==
  \/ line \/ plot_y \/ plot_xy \/ text
  \/ xlim \/ ylim \/ xticks \/ yticks \/ grid \/ colourmap \/ transparent
  \/ show \/ Figure_dtor \/ catch_error \/ terminate

SpecImshow == InitImshow /\ [][NextImshow]_vars
SpecFigure == InitFigure /\ [][NextFigure]_vars

(***************************************************************************)
(* The methods of Plot.  plot_called records the call and which call set   *)
(* the limits of each axis.                                                *)
(***************************************************************************)
plot_callable == plot_pc = "alive" /\ plot_last.n < MaxCalls

set_by(before, after, by, name) ==
  IF after = before THEN by ELSE name

plot_called(name, args) ==
  plot_last' = [name |-> name, args |-> args, n |-> plot_last.n + 1,
                xlim_by |-> set_by(plot.xlim, plot'.xlim, plot_last.xlim_by, name),
                ylim_by |-> set_by(plot.ylim, plot'.ylim, plot_last.ylim_by, name)]

Plot_reset ==
  /\ plot_callable
  /\ plot' = [plot EXCEPT !.xlim = <<NAN, NAN>>, !.ylim = <<NAN, NAN>>,
                          !.xgrid = NAN, !.ygrid = NAN, !.segments = 0]
  /\ plot_last' = [name |-> "reset", args |-> <<>>, n |-> plot_last.n + 1,
                   xlim_by |-> "none", ylim_by |-> "none"]
  /\ UNCHANGED <<plot_pc, imshow_vars, figure_vars, paint_vars, layout_vars, calc_vars>>

Plot_set_xlim ==
  /\ plot_callable
  /\ \E lim \in PlotLimits, expand_by \in PlotExpandBy :
        LET r == set_lim(plot.xlim, plot.xgrid, lim[1], lim[2], expand_by) IN
          /\ plot' = [plot EXCEPT !.xlim = r.lim, !.xgrid = r.grid]
          /\ plot_pc' = IF r.thrown THEN "thrown" ELSE plot_pc
          /\ plot_called("set_xlim", <<lim[1], lim[2], expand_by>>)
  /\ UNCHANGED <<imshow_vars, figure_vars, paint_vars, layout_vars, calc_vars>>

Plot_set_ylim ==
  /\ plot_callable
  /\ \E lim \in PlotLimits, expand_by \in PlotExpandBy :
        LET r == set_lim(plot.ylim, plot.ygrid, lim[1], lim[2], expand_by) IN
          /\ plot' = [plot EXCEPT !.ylim = r.lim, !.ygrid = r.grid]
          /\ plot_pc' = IF r.thrown THEN "thrown" ELSE plot_pc
          /\ plot_called("set_ylim", <<lim[1], lim[2], expand_by>>)
  /\ UNCHANGED <<imshow_vars, figure_vars, paint_vars, layout_vars, calc_vars>>

Plot_set_grid ==
  /\ plot_callable
  /\ \E x_interval \in PlotGrids, y_interval \in PlotGrids :
        /\ plot' = [plot EXCEPT !.xgrid = x_interval, !.ygrid = y_interval]
        /\ plot_called("set_grid", <<x_interval, y_interval>>)
  /\ UNCHANGED <<plot_pc, imshow_vars, figure_vars, paint_vars, layout_vars, calc_vars>>

\* add_line (x0, y0, x1, y1, ...): one segment
Plot_add_line ==
  /\ plot_callable
  /\ \E a \in PlotPoints, b \in PlotPoints :
        LET r == add_line_limits(plot,
                   Min(a[1], b[1]), IF a[1] < b[1] THEN b[1] ELSE a[1],
                   lim_expand_by_factor,
                   Min(a[2], b[2]), IF a[2] < b[2] THEN b[2] ELSE a[2],
                   lim_expand_by_factor)
        IN /\ plot' = IF r.thrown THEN r.plot
                      ELSE [r.plot EXCEPT !.segments = @ + 1]
           /\ plot_pc' = IF r.thrown THEN "thrown" ELSE plot_pc
           /\ plot_called("add_line", <<a, b>>)
  /\ UNCHANGED <<imshow_vars, figure_vars, paint_vars, layout_vars, calc_vars>>

\* add_line (y, ...): the series y against its index
Plot_add_line_y ==
  /\ plot_callable
  /\ \E y \in PlotSeries :
        LET r == add_line_limits(plot, 0, (Len(y) - 1) * Unit, 0,
                                 min_element(y), max_element(y), lim_expand_by_factor)
        IN /\ plot' = IF r.thrown THEN r.plot
                      ELSE [r.plot EXCEPT !.segments = @ + (Len(y) - 1)]
           /\ plot_pc' = IF r.thrown THEN "thrown" ELSE plot_pc
           /\ plot_called("add_line", <<y>>)
  /\ UNCHANGED <<imshow_vars, figure_vars, paint_vars, layout_vars, calc_vars>>

\* add_line (x, y, ...): the series y against the series x
Plot_add_line_xy ==
  /\ plot_callable
  /\ \E x \in PlotXSeries, y \in PlotSeries :
        /\ IF Len(x) # Len(y)
             THEN \* throw std::runtime_error ("number of x & y vertices do not match")
                  /\ plot' = plot
                  /\ plot_pc' = "thrown"
             ELSE LET r == add_line_limits(plot,
                             min_element(x), max_element(x), lim_expand_by_factor,
                             min_element(y), max_element(y), lim_expand_by_factor)
                  IN /\ plot' = IF r.thrown THEN r.plot
                                ELSE [r.plot EXCEPT !.segments = @ + (Len(x) - 1)]
                     /\ plot_pc' = IF r.thrown THEN "thrown" ELSE plot_pc
        /\ plot_called("add_line", <<x, y>>)
  /\ UNCHANGED <<imshow_vars, figure_vars, paint_vars, layout_vars, calc_vars>>

\* Plot::show: the grid lines are added with add_line, whose head sets no
\* limit here (a limit that is not finite is set from itself); the canvas
\* is written to std::cout.  The number of iterations of a grid loop:
grid_lines(lim, grid_interval) ==
  IF ~isfinite(grid_interval) \/ ~isfinite(lim[1]) \/ ~isfinite(lim[2])
       \/ grid_interval <= 0
    THEN 0
    ELSE LET first == grid_interval * (-((-lim[1]) \div grid_interval)) IN
      IF first < lim[2]
        THEN -((-(lim[2] - first)) \div grid_interval)
        ELSE 0

Plot_show ==
  /\ plot_callable
  /\ plot' = [plot EXCEPT
                !.segments = @ + grid_lines(plot.xlim, plot.xgrid)
                               + grid_lines(plot.ylim, plot.ygrid),
                !.shown = @ + 1]
  /\ plot_called("show", <<>>)
  /\ UNCHANGED <<plot_pc, imshow_vars, figure_vars, paint_vars, layout_vars, calc_vars>>

\* the caller catches the exception; the Plot is still in scope
plot_catch ==
  /\ plot_pc = "thrown"
  /\ plot_pc' = "alive"
  /\ UNCHANGED <<plot, plot_last, imshow_vars, figure_vars, paint_vars, layout_vars, calc_vars>>

NextPlot ==
  \/ Plot_reset \/ Plot_set_xlim \/ Plot_set_ylim \/ Plot_set_grid
  \/ Plot_add_line \/ Plot_add_line_y \/ Plot_add_line_xy
  \/ Plot_show \/ plot_catch

InitPlot == InitFigure

SpecPlot == InitPlot /\ [][NextPlot]_vars

(***************************************************************************)
(* A call of render_line and a call of Font::render on the canvas.         *)
(* painted records the call, the canvas before it and the pixels assigned. *)
(***************************************************************************)
call_render_line ==
  /\ painted.name = "none"
  /\ \E a \in LinePoints, b \in LinePoints, colour_index \in PaintColours, s \in Stiples :
        LET pixels == render_line(canvas, a[1], a[2], b[1], b[2],
                                  s.stiple, s.stiple_frac, build.nan_to_int)
        IN /\ canvas' = assign(canvas, pixels, colour_index)
           /\ painted' = [name |-> "render_line", a |-> a, b |-> b,
                          colour_index |-> colour_index,
                          stiple |-> s.stiple, stiple_frac |-> s.stiple_frac,
                          before |-> canvas, pixels |-> pixels]
  /\ UNCHANGED <<build, imshow_vars, figure_vars, plot_vars, layout_vars, calc_vars>>

call_Font_render ==
  /\ painted.name = "none"
  /\ \E c \in Chars, x \in GlyphXs, y \in GlyphYs, colour_index \in PaintColours,
        garbage \in Garbage :
        LET pixels == Font_render(canvas, c, x, y, garbage)
        IN /\ canvas' = assign(canvas, pixels, colour_index)
           /\ painted' = [name |-> "Font::render", c |-> c, x |-> x, y |-> y,
                          colour_index |-> colour_index,
                          in_bounds |-> c \in DOMAIN mapping,
                          glyph |-> Font_lookup(c, garbage),
                          before |-> canvas, pixels |-> pixels]
  /\ UNCHANGED <<build, imshow_vars, figure_vars, plot_vars, layout_vars, calc_vars>>

NextPaint == call_render_line \/ call_Font_render

InitPaint ==
  /\ cmap = Palette(1)
  /\ image \in Image(1, 1, {0})
  /\ zero_is_transparent = FALSE
  /\ out = <<>>
  /\ pc = "ready"
  /\ Figure
  /\ Plot
  /\ NotShown
  /\ NotCalled
  /\ \E fill \in Backgrounds : canvas = Canvas(fill)
  /\ build \in [nan_to_int : NanToInt]
  /\ painted = [name |-> "none"]

SpecPaint == InitPaint /\ [][NextPaint]_vars

(***************************************************************************)
(* A Figure that has received its elements and settings, and is shown.     *)
(* show records what it computed and the calls of render_line and          *)
(* render_text it made.                                                    *)
(***************************************************************************)
Changed(b) == IF b THEN 1 ELSE 0

InitLayout ==
  /\ cmap = Palette(1)
  /\ image \in Image(1, 1, {0})
  /\ zero_is_transparent = FALSE
  /\ out = <<>>
  /\ pc = "ready"
  /\ Plot
  /\ NotPainting
  /\ NotShown
  /\ NotCalled
  /\ m_canvas_size \in CanvasSizes
  /\ m_colourmap \in LayoutColourMaps
  /\ m_zero_is_transparent = TRUE
  /\ m_tick_spacing \in XTickSpacings \X YTickSpacings
  /\ m_grid \in Grids
  /\ m_xlim \in XLimits
  /\ m_ylim \in YLimits
  /\ \E s \in ElementSeqs(MaxElements) : m_elements = Numbered(s)
  /\ fig = "alive"
  /\ frames = <<>>
  /\ nadded = Len(m_elements)
  /\ ncalls = Len(m_elements)
              + Changed(m_xlim # AutoLimits) + Changed(m_ylim # AutoLimits)
              + Changed(m_tick_spacing[1] # None) + Changed(m_tick_spacing[2] # None)
              + Changed(m_grid # <<TRUE, TRUE>>)
              + Changed(m_colourmap # get_default_cmap)
  /\ last_call = [name |-> "Figure", args |-> <<>>]
  /\ rendered = FALSE
  /\ at_throw = [nframes |-> 0, pending |-> 0]
  /\ unwound = FALSE

\* An empty series makes show read a point that the series does not have:
\* *std::min_element (begin, end) in auto_ylim when the y limits are not
\* set, else p.y[0] and p.y[1] in the loop over n < p.y.size()-1, which is
\* the largest size_t.  The behaviour is undefined: the process is taken
\* to crash on the read, or to go on reading beyond the series.
empty_series(elements) ==
  {n \in DOMAIN elements :
     elements[n].kind \in {"YPlot", "XYPlot"} /\ Len(elements[n].y) = 0}

out_of_range_read(elements) ==
  LET first == CHOOSE n \in empty_series(elements) :
                 \A k \in empty_series(elements) : n <= k
  IN [id |-> elements[first].id, index |-> 0, size |-> 0,
      by |-> IF isfinite(m_ylim[1]) /\ isfinite(m_ylim[2]) THEN "show" ELSE "auto_ylim"]

show_figure ==
  /\ fig = "alive"
  /\ ~layout.shown
  /\ IF empty_series(m_elements) # {}
       THEN /\ fig' \in {"crashed", "hung"}
            /\ layout' = [shown |-> FALSE, read |-> out_of_range_read(m_elements)]
            /\ UNCHANGED <<frames, m_elements, rendered>>
       ELSE /\ show_body("show")
            /\ fig' = IF show_returns THEN fig ELSE "hung"
            /\ layout' = show_layout
  /\ called("show", <<>>)
  /\ UNCHANGED <<imshow_vars, plot_vars, paint_vars, calc_vars, settings, nadded, at_throw,
                 unwound>>

NextLayout == show_figure

SpecLayout == InitLayout /\ [][NextLayout]_vars

(***************************************************************************)
(* Calls of the functions, one per behaviour: the arguments are drawn in   *)
(* the initial state, and the call records whether it returned and what.   *)
(***************************************************************************)
Arguments ==
  {[name |-> "get_colour_in_cmap", applied |-> FALSE,
    colour_index |-> colour_index, size |-> size] :
     colour_index \in ColourIndices, size \in CmapSizes}
  \cup {[name |-> "Rescale", applied |-> FALSE,
          v |-> v, min |-> lim[1], max |-> lim[2], cmap_size |-> cmap_size] :
           v \in RescaleValues, lim \in RescaleLimits, cmap_size \in RescaleSizes}
  \cup {[name |-> "gray", applied |-> FALSE, number |-> number] :
           number \in GrayNumbers}

call_get_colour_in_cmap ==
  /\ calc.name = "get_colour_in_cmap"
  /\ ~calc.applied
  /\ calc' = IF get_colour_in_cmap_returns(calc.colour_index, calc.size)
               THEN [name |-> calc.name, applied |-> TRUE,
                     colour_index |-> calc.colour_index, size |-> calc.size,
                     returned |-> TRUE,
                     value |-> get_colour_in_cmap(calc.colour_index, calc.size)]
               ELSE [name |-> calc.name, applied |-> TRUE,
                     colour_index |-> calc.colour_index, size |-> calc.size,
                     returned |-> FALSE]
  /\ UNCHANGED <<imshow_vars, figure_vars, plot_vars, paint_vars, layout_vars>>

call_Rescale ==
  /\ calc.name = "Rescale"
  /\ ~calc.applied
  /\ calc' = [name |-> calc.name, applied |-> TRUE,
              v |-> calc.v, min |-> calc.min, max |-> calc.max,
              cmap_size |-> calc.cmap_size,
              value |-> Rescale(calc.v, calc.min, calc.max, calc.cmap_size)]
  /\ UNCHANGED <<imshow_vars, figure_vars, plot_vars, paint_vars, layout_vars>>

call_gray ==
  /\ calc.name = "gray"
  /\ ~calc.applied
  /\ calc' = [name |-> calc.name, applied |-> TRUE, number |-> calc.number,
              value |-> gray(calc.number)]
  /\ UNCHANGED <<imshow_vars, figure_vars, plot_vars, paint_vars, layout_vars>>

NextCalc == call_get_colour_in_cmap \/ call_Rescale \/ call_gray

InitCalc ==
  /\ cmap = Palette(1)
  /\ image \in Image(1, 1, {0})
  /\ zero_is_transparent = FALSE
  /\ out = <<>>
  /\ pc = "ready"
  /\ Figure
  /\ Plot
  /\ NotPainting
  /\ NotShown
  /\ calc \in Arguments

SpecCalc == InitCalc /\ [][NextCalc]_vars

(***************************************************************************)
(* The colour loop of encode, one iteration at a time:                     *)
(*   for (ctype intensity = cmap_start; intensity < cmap_end; ++intensity) *)
(* with cmap_start and cmap_end as imshow passes them.  intensity is a     *)
(* ctype: ++intensity of 255 is 0.  visits lists the values of intensity   *)
(* for which the body (encode_row) has run.                                *)
(***************************************************************************)
InitEncode ==
  /\ cmap = Palette(1)
  /\ image \in Image(1, 1, {0})
  /\ zero_is_transparent = FALSE
  /\ out = <<>>
  /\ pc = "ready"
  /\ Figure
  /\ Plot
  /\ NotPainting
  /\ NotShown
  /\ \E size \in EncodeSizes, zt \in BOOLEAN :
        calc = [name |-> "encode", pc |-> "loop",
                cmap_start |-> IF zt THEN 1 ELSE 0, cmap_end |-> size,
                intensity |-> (IF zt THEN 1 ELSE 0) % CTYPE_MOD,
                visits |-> <<>>]

encode_iterate ==
  /\ calc.name = "encode" /\ calc.pc = "loop"
  /\ calc.intensity < calc.cmap_end
  /\ Len(calc.visits) < MaxIterations
  /\ calc' = [calc EXCEPT !.visits = Append(@, calc.intensity),
                          !.intensity = (@ + 1) % CTYPE_MOD]
  /\ UNCHANGED <<imshow_vars, figure_vars, plot_vars, paint_vars, layout_vars>>

encode_return ==
  /\ calc.name = "encode" /\ calc.pc = "loop"
  /\ ~(calc.intensity < calc.cmap_end)
  /\ calc' = [calc EXCEPT !.pc = "returned"]
  /\ UNCHANGED <<imshow_vars, figure_vars, plot_vars, paint_vars, layout_vars>>

NextEncode == encode_iterate \/ encode_return

SpecEncode == InitEncode /\ [][NextEncode]_vars



(***************************************************************************)
(* Vocabulary of the properties of imshow                                  *)
(***************************************************************************)
Decoded == ParseStream(out, Len(cmap), NumBands(image))
Columns == 0..(image.width - 1)
Lines == 0..(image.height - 1)
BandIndices == 1..NumBands(image)
BandOffset(b) == 6 * (b - 1)
BandLines(b) == {y \in Lines : y \div 6 = b - 1}
HasBit(mask, b) == (mask \div (2^b)) % 2 = 1
RowIndices(rows) == 1..Len(rows)
RowsOf(rows, k) == {r \in RowIndices(rows) : rows[r].k = k}
PixelValues(b) == {image.px[<<x, y>>] : x \in Columns, y \in BandLines(b)}
ScannedRange == (IF zero_is_transparent THEN 1 ELSE 0)..(Len(cmap) - 1)
Centre3x3 ==
  [width |-> 3, height |-> 3,
   px |-> [p \in (0..2) \X (0..2) |-> IF p = <<1, 1>> THEN 1 ELSE 0]]

\* the maximal runs of equal consecutive masks, as <<n, mask>> records
RECURSIVE RunEnd(_, _)
RunEnd(ms, i) ==
  IF i < Len(ms) /\ ms[i + 1] = ms[i] THEN RunEnd(ms, i + 1) ELSE i

RECURSIVE MaximalRuns(_, _)
MaximalRuns(ms, i) ==
  IF i > Len(ms) THEN <<>>
  ELSE <<[n |-> RunEnd(ms, i) - i + 1, mask |-> ms[i]]>>
         \o MaximalRuns(ms, RunEnd(ms, i) + 1)

\* the units the run-length rule prescribes for a sequence of runs
RECURSIVE PrescribedUnits(_)
PrescribedUnits(runs) ==
  IF runs = <<>> THEN <<>>
  ELSE (IF Head(runs).n <= 3
          THEN [c \in 1..Head(runs).n |-> [n |-> 1, mask |-> Head(runs).mask, rle |-> FALSE]]
          ELSE <<[n |-> Head(runs).n, mask |-> Head(runs).mask, rle |-> TRUE]>>)
       \o PrescribedUnits(Tail(runs))

\* the masks of colour k in the band at offset y0, straight from the pixels
ImageMasks(k, y0) ==
  [c \in 1..image.width |->
     LET bit(b) == IF y0 + b < image.height /\ image.px[<<c - 1, y0 + b>>] = k
                     THEN 2^b ELSE 0
     IN bit(0) + bit(1) + bit(2) + bit(3) + bit(4) + bit(5)]

(***************************************************************************)
(* C1: round trip.  With zero_is_transparent = false the stream decodes,   *)
(* and for every pixel (x,y) exactly one colour row of its band has the    *)
(* bit of the pixel set in the mask of column x; that row is the row of    *)
(* the pixel's value.                                                      *)
(***************************************************************************)
C1_RoundTrip ==
  LET D == Decoded IN
    (pc = "done" /\ ~zero_is_transparent) =>
      /\ D.ok
      /\ \A x \in Columns, y \in Lines :
           LET rows == D.bands[(y \div 6) + 1]
               hits == {r \in RowIndices(rows) :
                          /\ x + 1 <= Len(rows[r].masks)
                          /\ HasBit(rows[r].masks[x + 1], y % 6)}
           IN /\ Cardinality(hits) = 1
              /\ \A r \in hits : rows[r].k = image.px[<<x, y>>]

C1_Witness ==
  /\ pc = "done" /\ ~zero_is_transparent
  /\ image.height > 6
  /\ Cardinality(PixelValues(1)) = 2
  /\ Cardinality(PixelValues(2)) = 1

(***************************************************************************)
(* C2: absent colours are skipped.  A band has no #k row for a scanned     *)
(* index k that no pixel of the band has; an image of index 0 only gives   *)
(* bands without rows when transparent, and bands of exactly the #0 row    *)
(* otherwise.                                                              *)
(***************************************************************************)
C2_AbsentColoursSkipped ==
  LET D == Decoded IN
    pc = "done" =>
      /\ D.ok
      /\ \A b \in BandIndices : \A k \in ScannedRange :
           k \notin PixelValues(b) => RowsOf(D.bands[b], k) = {}
      /\ (\A b \in BandIndices : PixelValues(b) = {0}) =>
           \A b \in BandIndices :
             IF zero_is_transparent
               THEN D.bands[b] = <<>>
               ELSE Len(D.bands[b]) = 1 /\ D.bands[b][1].k = 0


(***************************************************************************)
(* C3: transparency omission.  For an image without a pixel of index 0,    *)
(* the output is byte for byte the output of the other transparency        *)
(* setting.                                                                *)
(***************************************************************************)
C3_TransparencyOmission ==
  (pc = "done" /\ \A b \in BandIndices : 0 \notin PixelValues(b)) =>
    out = imshow(image, cmap, ~zero_is_transparent)

(***************************************************************************)
(* C4: run-length threshold.  In every colour row, each maximal run of n   *)
(* equal masks of the band is emitted as n literal characters if n <= 3    *)
(* and as one token !<n><char> if n >= 4.                                  *)
(***************************************************************************)
C4_RunLengthThreshold ==
  LET D == Decoded IN
    pc = "done" =>
      /\ D.ok
      /\ \A b \in BandIndices : \A r \in RowIndices(D.bands[b]) :
           LET row == D.bands[b][r] IN
             row.units = PrescribedUnits(MaximalRuns(ImageMasks(row.k, BandOffset(b)), 1))

C4_Witness ==
  LET D == Decoded IN
    /\ pc = "done"
    /\ \E r \in RowIndices(D.bands[1]) :
         LET runs == MaximalRuns(ImageMasks(D.bands[1][r].k, 0), 1) IN
           /\ \E i \in 1..Len(runs) : runs[i].n = 3
           /\ \E i \in 1..Len(runs) : runs[i].n = 4
           /\ [n |-> 4, mask |-> 1, rle |-> TRUE] \in
                {D.bands[1][r].units[i] : i \in 1..Len(D.bands[1][r].units)}

(***************************************************************************)
(* C5: wire format.  The output is the introducer, the colour definitions  *)
(* #i;2;R;G;B of the colourmap in index order, then for each band from top *)
(* to bottom its rows (#k and data, one $ between rows, none before the    *)
(* first) and one "-", then the string terminator.                         *)
(*   C5_WireFormat_Original: ... and nothing after the terminator.         *)
(*   C5_WireFormat: ... and one newline after the terminator.              *)
(***************************************************************************)
WireFormat(trailer) ==
  LET D == Decoded IN
    /\ D.ok
    /\ D.cols = cmap
    /\ Len(D.bands) = NumBands(image)
    /\ \A b \in BandIndices : \A r \in RowIndices(D.bands[b]) :
         /\ Len(D.bands[b][r].masks) = image.width
         /\ r > 1 => D.bands[b][r - 1].k < D.bands[b][r].k
    /\ D.tail = trailer

C5_WireFormat_Original == pc = "done" => WireFormat(<<ESC, CH_BACKSLASH>>)

C5_WireFormat == pc = "done" => WireFormat(<<ESC, CH_BACKSLASH, LF>>)

C5_Witness ==
  LET D == Decoded IN
    /\ pc = "done"
    /\ NumBands(image) = 2
    /\ Len(cmap) = 2
    /\ Len(D.bands[1]) = 2
    /\ Len(out) > 3 /\ SubSeq(out, Len(out) - 2, Len(out)) = <<ESC, CH_BACKSLASH, LF>>


(***************************************************************************)
(* C6: mask content and transparency.  In every emitted row of colour k    *)
(* of a band, the mask of column x has bit b set iff b < nsixels and pixel *)
(* (x, y0+b) is k.  A transparent encoding has no #0 row; an opaque one    *)
(* has a #0 row in every band with a pixel of index 0.  The 3x3 image that *)
(* is 0 but for its centre 1, with two colours: one #1 row, masks 0, 2, 0. *)
(***************************************************************************)
C6_MaskContent ==
  LET D == Decoded IN
    pc = "done" =>
      /\ D.ok
      /\ \A b \in BandIndices : \A r \in RowIndices(D.bands[b]) :
           LET row == D.bands[b][r]
               nsixels == Min(image.height - BandOffset(b), 6)
           IN /\ Len(row.masks) = image.width
              /\ \A x \in Columns :
                   /\ row.masks[x + 1] \in 0..63
                   /\ \A bit \in 0..5 :
                        HasBit(row.masks[x + 1], bit) <=>
                          (bit < nsixels /\ image.px[<<x, BandOffset(b) + bit>>] = row.k)
      /\ \A b \in BandIndices :
           IF zero_is_transparent
             THEN RowsOf(D.bands[b], 0) = {}
             ELSE 0 \in PixelValues(b) => RowsOf(D.bands[b], 0) # {}
      /\ (image = Centre3x3 /\ Len(cmap) = 2) =>
           /\ Cardinality(RowsOf(D.bands[1], 1)) = 1
           /\ \A r \in RowsOf(D.bands[1], 1) : D.bands[1][r].masks = <<0, 2, 0>>

C6_Witness ==
  LET D == Decoded IN
    /\ pc = "done"
    /\ image = Centre3x3
    /\ Len(cmap) = 2
    /\ zero_is_transparent
    /\ Len(D.bands[1]) = 1

(***************************************************************************)
(* Vocabulary of the properties of Figure                                  *)
(***************************************************************************)
FrameIndices == 1..Len(frames)
TimesRendered(id) ==
  Cardinality({f \in FrameIndices :
                 \E n \in 1..Len(frames[f].elements) : frames[f].elements[n].id = id})
IsPending(id) == \E n \in 1..Len(m_elements) : m_elements[n].id = id
IsCall(name) == ncalls' = ncalls + 1 /\ last_call'.name = name

(***************************************************************************)
(* C7: render at most once.  A call of show() made after a show() that     *)
(* rendered, with no element added since, writes nothing and changes no    *)
(* field of the session.                                                   *)
(***************************************************************************)
C7_ShowIsNoOp ==
  [][(IsCall("show") /\ rendered /\ m_elements = <<>>)
       => (frames' = frames /\ UNCHANGED session)]_vars

C9_NoOutput_Original ==
  ((fig = "thrown" \/ unwound) /\ at_throw.pending > 0) =>
    Len(frames) = at_throw.nframes

C9_OutputAtDisposal ==
  /\ (fig = "thrown" /\ at_throw.pending > 0) => Len(frames) = at_throw.nframes
  /\ (unwound /\ fig = "destroyed" /\ at_throw.pending > 0) =>
       /\ Len(frames) = at_throw.nframes + 1
       /\ frames[Len(frames)].by = "~Figure"
       /\ Len(frames[Len(frames)].elements) = at_throw.pending

C9_Witness ==
  /\ unwound
  /\ fig = "destroyed"
  /\ at_throw.pending > 0
  /\ last_call.name = "~Figure"

(***************************************************************************)
(* C10: plot(x, y) with x.size() # y.size() throws at the call: no element *)
(* is appended, no setting changes, nothing is written.                    *)
(***************************************************************************)
C10_MismatchRejected ==
  [][(IsCall("plot(x,y)") /\ last_call'.args[1] # last_call'.args[2])
       => (fig' = "thrown" /\ UNCHANGED session /\ frames' = frames)]_vars

C10_Witness ==
  /\ fig = "thrown"
  /\ last_call.name = "plot(x,y)"
  /\ last_call.args[1] # last_call.args[2]
  /\ m_elements # <<>>
  /\ m_xlim # <<Inf, -Inf>>

(***************************************************************************)
(* C11: the limits of an axis of a Plot are set once.  A call of set_xlim  *)
(* (set_ylim) made while the x (y) limits are finite, whichever call set   *)
(* them, throws and changes no field of the Plot; and a finite limit is    *)
(* changed by no call but reset().                                         *)
(***************************************************************************)
IsPlotCall(name) == plot_last'.n = plot_last.n + 1 /\ plot_last'.name = name
IsSet(lim) == isfinite(lim[1]) /\ isfinite(lim[2])

C11_LimitsSetOnce ==
  [][/\ (IsPlotCall("set_xlim") /\ IsSet(plot.xlim))
          => (plot_pc' = "thrown" /\ plot' = plot)
     /\ (IsPlotCall("set_ylim") /\ IsSet(plot.ylim))
          => (plot_pc' = "thrown" /\ plot' = plot)
     /\ ((isfinite(plot.xlim[1]) \/ isfinite(plot.xlim[2])) /\ ~IsPlotCall("reset"))
          => plot'.xlim = plot.xlim
     /\ ((isfinite(plot.ylim[1]) \/ isfinite(plot.ylim[2])) /\ ~IsPlotCall("reset"))
          => plot'.ylim = plot.ylim]_vars

C11_Witness ==
  /\ plot_pc = "thrown"
  /\ plot_last.name = "set_xlim"
  /\ plot_last.xlim_by = "add_line"
  /\ plot_last.ylim_by = "set_ylim"
  /\ IsSet(plot.xlim)

(***************************************************************************)
(* Vocabulary of the properties of render_line and Font::render            *)
(***************************************************************************)
PaintedLine == painted.name = "render_line"
PaintedGlyph == painted.name = "Font::render"
OnCanvas == DOMAIN canvas.px
QFloor(a) == a[1] \div a[2]

\* a line is steep when it is closer to the vertical; Along is the
\* coordinate on its dominant axis, Across the other one
Steep(a, b) == QLess(QAbs(QSub(b[1], a[1])), QAbs(QSub(b[2], a[2])))
Along(p, steep) == IF steep THEN p[2] ELSE p[1]
Across(p, steep) == IF steep THEN p[1] ELSE p[2]
Pixel(u, v, steep) == IF steep THEN <<v, u>> ELSE <<u, v>>

\* the pixels of the segment a-b on an unbounded raster: one per integer
\* of the dominant axis from the rounded lower end to the upper end, on the
\* rounded position of the segment
SegmentPixels(a, b) ==
  LET steep == Steep(a, b)
      lo == IF QLess(Along(b, steep), Along(a, steep)) THEN b ELSE a
      hi == IF QLess(Along(b, steep), Along(a, steep)) THEN a ELSE b
      du == QSub(Along(hi, steep), Along(lo, steep))
      dv == QSub(Across(hi, steep), Across(lo, steep))
  IN IF du[1] = 0 THEN {}
     ELSE {Pixel(u, QRound(QAdd(Across(lo, steep),
                                QDiv(QMul(dv, QSub(QInt(u), Along(lo, steep))), du))),
                 steep) :
             u \in QRound(Along(lo, steep))..QFloor(Along(hi, steep))}

\* the set bits of the glyph of a character, placed at (x, y)
GlyphBit(c, i, j) ==
  /\ c \in 33..126
  /\ LET k == FONT_HEIGHT * (c - 32) + j + 1 IN
       k <= Len(unifont8x16) /\ (unifont8x16[k] \div (2^i)) % 2 = 1
GlyphPixels(c, x, y) ==
  {p \in (x..(x + FONT_WIDTH - 1)) \X (y..(y + FONT_HEIGHT - 1)) :
     GlyphBit(c, p[1] - x, p[2] - y)}

(***************************************************************************)
(* C12: silent clipping.  render_line and Font::render assign only pixels  *)
(* of the canvas, wherever the end points or the origin lie; every pixel   *)
(* of a solid segment, and every set bit of a glyph, that falls on the     *)
(* canvas is assigned.                                                     *)
(***************************************************************************)
C12_SilentClipping ==
  /\ painted.name # "none" => painted.pixels \subseteq OnCanvas
  /\ (PaintedLine /\ painted.stiple = 0) =>
       (SegmentPixels(painted.a, painted.b) \cap OnCanvas) \subseteq painted.pixels
  /\ (PaintedGlyph /\ painted.in_bounds) =>
       (GlyphPixels(painted.c, painted.x, painted.y) \cap OnCanvas) \subseteq painted.pixels

C12_Witness ==
  /\ PaintedLine
  /\ painted.stiple = 0
  /\ painted.pixels # {}
  /\ painted.a \notin {<<QInt(p[1]), QInt(p[2])>> : p \in OnCanvas}
  /\ ~(SegmentPixels(painted.a, painted.b) \subseteq OnCanvas)
  /\ Steep(painted.a, painted.b)

(***************************************************************************)
(* C13: symmetry of line drawing.  render_line (b, a) on the canvas of     *)
(* before the call leaves the canvas that render_line (a, b) left.         *)
(***************************************************************************)
C13_LineSymmetry ==
  PaintedLine =>
    canvas = assign(painted.before,
                    render_line(painted.before, painted.b[1], painted.b[2],
                                painted.a[1], painted.a[2],
                                painted.stiple, painted.stiple_frac, build.nan_to_int),
                    painted.colour_index)

C13_Witness ==
  /\ PaintedLine
  /\ QLess(painted.b[1], painted.a[1])
  /\ ~Steep(painted.a, painted.b)
  /\ painted.a[2] # painted.b[2]
  /\ Cardinality(painted.pixels) > 3

(***************************************************************************)
(* C14: transparent glyph background.  For a character of the table, after *)
(* Font::render a pixel of the canvas holds colour_index if it is under a  *)
(* set bit of the glyph placed at (x, y), and its previous value if not.   *)
(***************************************************************************)
C14_TransparentGlyph ==
  (PaintedGlyph /\ painted.in_bounds) =>
    LET set == GlyphPixels(painted.c, painted.x, painted.y) IN
      \A p \in OnCanvas :
        canvas.px[p] = IF p \in set THEN painted.colour_index ELSE painted.before.px[p]

C14_Witness ==
  /\ PaintedGlyph
  /\ painted.c = 65
  /\ painted.before = Canvas(9)
  /\ painted.x < 0
  /\ \E p \in OnCanvas : canvas.px[p] = painted.colour_index
  /\ \E p \in OnCanvas :
       /\ p[1] < painted.x + FONT_WIDTH /\ p[2] \in painted.y..(painted.y + FONT_HEIGHT - 1)
       /\ canvas.px[p] = 9

(***************************************************************************)
(* C15: unmapped characters never fail.  For every char the glyph index is *)
(* read inside the 128 entries of the table and lies in 0..94; a character *)
(* outside 33..126 gives the blank glyph 0, and nothing is drawn.          *)
(***************************************************************************)
C15_UnmappedNeverFail ==
  PaintedGlyph =>
    /\ painted.in_bounds
    /\ painted.glyph \in 0..94
    /\ painted.c \notin 33..126 => (painted.glyph = 0 /\ painted.pixels = {})

(***************************************************************************)
(* C16: dash pattern.  Of the pixels of a segment (of some length) on the  *)
(* canvas, render_line with stiple s > 0 and fraction f assigns those      *)
(* whose coordinate on the dominant axis, modulo s, is below f*s, and with *)
(* s = 0 all of them; with s = 10 and f = 0.3 those are the coordinates    *)
(* 0, 1, 2 modulo 10.                                                      *)
(***************************************************************************)
C16_DashPattern ==
  (PaintedLine /\ painted.a # painted.b) =>
    LET steep == Steep(painted.a, painted.b)
        s == painted.stiple
        f == painted.stiple_frac
        segment == SegmentPixels(painted.a, painted.b) \cap OnCanvas
    IN /\ painted.pixels =
            {p \in segment : s = 0 \/ QLess(QInt(Along(p, steep) % s), QMul(f, QInt(s)))}
       /\ (s = 10 /\ f = Q(3, 10)) =>
            \A p \in segment : p \in painted.pixels <=> Along(p, steep) % 10 \in {0, 1, 2}

C16_Witness ==
  /\ PaintedLine
  /\ painted.stiple = 10 /\ painted.stiple_frac = Q(3, 10)
  /\ painted.a[2] = painted.b[2]
  /\ {p[1] : p \in painted.pixels} = {x \in 0..(CanvasWidth - 1) : x % 10 \in {0, 1, 2}}
  /\ QRound(painted.a[1]) % 10 # 0

(***************************************************************************)
(* Vocabulary of the properties of Figure::show: the elements that the     *)
(* call of show rendered, and the values they contribute to the ranges.    *)
(***************************************************************************)
Shown == layout.shown /\ Len(frames) = 1
ShownElements == frames[1].elements
Axes == {1, 2}
Manual(axis) == IF axis = 1 THEN layout.xlim_manual ELSE layout.ylim_manual
SetLimits(axis) == IF axis = 1 THEN m_xlim ELSE m_ylim
AutoRange(axis) == IF axis = 1 THEN layout.auto.xlim ELSE layout.auto.ylim
FinalLimits(axis) == IF axis = 1 THEN layout.xlim ELSE layout.ylim
FinalSpacing(axis) == IF axis = 1 THEN layout.xtick_spacing ELSE layout.ytick_spacing
SetMin(S) == CHOOSE m \in S : \A v \in S : m <= v
SetMax(S) == CHOOSE m \in S : \A v \in S : v <= m
Values(v) == {v[k] : k \in DOMAIN v}

XContribution(el) ==
  IF el.kind = "Line" THEN {el.a[1], el.b[1]}
  ELSE IF el.kind = "YPlot" THEN {0, (Len(el.y) - 1) * Unit}
  ELSE IF el.kind = "XYPlot" THEN Values(el.x)
  ELSE {}

YContribution(el) ==
  IF el.kind = "Line" THEN {el.a[2], el.b[2]}
  ELSE IF el.kind \in {"YPlot", "XYPlot"} THEN Values(el.y)
  ELSE {}

Contributions(axis) ==
  UNION {IF axis = 1 THEN XContribution(ShownElements[n])
                     ELSE YContribution(ShownElements[n]) :
         n \in DOMAIN ShownElements}

OnlySeries(y) ==
  /\ Len(ShownElements) = 1
  /\ ShownElements[1].kind = "YPlot"
  /\ ShownElements[1].y = y

(***************************************************************************)
(* C17: for an axis whose limits were not set, show resolves the range,    *)
(* before it is snapped, as the least and the greatest of: 0 and count-1   *)
(* of every index series, the x values of every x/y series and the ends of *)
(* every line segment (x axis); the y values of every series and the ends  *)
(* of every line segment (y axis).  A text contributes nothing.  With the  *)
(* series y = [1, 5, 2] alone the x limits are [0, 2].                     *)
(***************************************************************************)
C17_AutoRanging ==
  Shown =>
    /\ \A axis \in Axes :
         ~Manual(axis) /\ Contributions(axis) # {} =>
           AutoRange(axis) = <<SetMin(Contributions(axis)), SetMax(Contributions(axis))>>
    /\ OnlySeries(<<Unit, 5 * Unit, 2 * Unit>>) /\ ~Manual(1) =>
         /\ layout.auto.xlim = <<0, 2 * Unit>>
         /\ layout.xlim = <<0, 2 * Unit>>

C17_Witness ==
  /\ Shown
  /\ ~Manual(1) /\ ~Manual(2)
  /\ Len(ShownElements) = 2
  /\ ShownElements[1].kind = "YPlot" /\ ShownElements[1].size = 3
  /\ ShownElements[2].kind = "XYPlot"
  /\ layout.auto.xlim = <<-250, 250>>

(***************************************************************************)
(* C18: an axis with automatic limits [lo, hi] and a computed spacing      *)
(* s > 0 is drawn with limits that are multiples of s, the lower one at    *)
(* most lo, the upper one at least hi, each less than s away from the      *)
(* automatic one; an axis whose limits were set is drawn with them.        *)
(***************************************************************************)
C18_LimitSnapping ==
  Shown =>
    \A axis \in Axes :
      LET s == layout.spacing[axis]
          lo == AutoRange(axis)[1]
          hi == AutoRange(axis)[2]
          new == FinalLimits(axis)
      IN /\ ~Manual(axis) /\ isfinite(lo) /\ isfinite(hi) /\ isfinite(s) /\ s > 0 =>
              /\ new[1] % s = 0 /\ new[2] % s = 0
              /\ new[1] <= lo /\ lo - new[1] < s
              /\ new[2] >= hi /\ new[2] - hi < s
         /\ Manual(axis) => new = SetLimits(axis)

C18_Witness ==
  /\ Shown
  /\ ~Manual(1) /\ Manual(2)
  /\ isfinite(layout.spacing[1]) /\ layout.spacing[1] > 0
  /\ layout.xlim[1] < layout.auto.xlim[1]
  /\ layout.xlim[2] > layout.auto.xlim[2]
  /\ layout.ylim = <<0, 420>>

(***************************************************************************)
(* C19: with raw = range / desired number of ticks > 0 and mult the power  *)
(* of ten with mult <= raw < 10 mult, compute_tick_spacing returns 2 mult  *)
(* if raw < 2 mult, 5 mult if raw < 5 mult and 10 mult otherwise; the      *)
(* result is above raw and at most 2.5 raw.  A range of 37 with 5 ticks    *)
(* gives 10, a range of 4.2 with 5 ticks gives 1.                          *)
(***************************************************************************)
QEq(a, b) == a[1] * b[2] = b[1] * a[2]
Exponents == -3..3
Range(axis) == AutoRange(axis)[2] - AutoRange(axis)[1]
Ranged(axis) ==
  isfinite(AutoRange(axis)[1]) /\ isfinite(AutoRange(axis)[2]) /\ Range(axis) > 0

C19_NiceTickSpacing ==
  Shown =>
    \A axis \in Axes :
      Ranged(axis) =>
        LET raw == QDiv(Q(Range(axis), Unit), layout.init_spacing[axis])
            result == Q(layout.spacing[axis], Unit)
        IN /\ \E k \in Exponents :
                LET mult == pow10(k) IN
                  /\ ~QLess(raw, mult)
                  /\ QLess(raw, QMul(QInt(10), mult))
                  /\ QEq(result,
                         IF QLess(raw, QMul(QInt(2), mult)) THEN QMul(QInt(2), mult)
                         ELSE IF QLess(raw, QMul(QInt(5), mult)) THEN QMul(QInt(5), mult)
                         ELSE QMul(QInt(10), mult))
           /\ QLess(raw, result)
           /\ ~QLess(QMul(Q(5, 2), raw), result)
           /\ QEq(layout.init_spacing[axis], QInt(5)) =>
                /\ Range(axis) = 37 * Unit => layout.spacing[axis] = 10 * Unit
                /\ Range(axis) = 420 => layout.spacing[axis] = Unit

C19_Witness ==
  /\ Shown
  /\ QEq(layout.init_spacing[1], QInt(5)) /\ QEq(layout.init_spacing[2], QInt(5))
  /\ Range(1) = 37 * Unit /\ layout.spacing[1] = 10 * Unit
  /\ Range(2) = 420 /\ layout.spacing[2] = Unit

(***************************************************************************)
(* C20: after xticks(s) or yticks(s) with s <= 0, show draws no tick mark  *)
(* and no tick label on that axis, and it still draws the gridlines of the *)
(* axis, at the computed spacing, when the grid of the axis is enabled;    *)
(* with the grid of an axis disabled, no gridline of that axis is drawn    *)
(* and its tick marks and labels are drawn as they are with the grid.      *)
(***************************************************************************)
Suppressed(axis) == m_tick_spacing[axis] # None /\ m_tick_spacing[axis] <= 0
CallsBy(b) == {layout.calls[i].n : i \in {j \in DOMAIN layout.calls : layout.calls[j].by = b}}
GridOf(axis) == CallsBy(IF axis = 1 THEN "xgrid" ELSE "ygrid")
MarksOf(axis) == CallsBy(IF axis = 1 THEN "xtick" ELSE "ytick")
LabelsOf(axis) == CallsBy(IF axis = 1 THEN "xlabel" ELSE "ylabel")
\* the multiples n of the spacing s with lo <= n s <= hi
Multiples(lim, s) ==
  IF isfinite(lim[1]) /\ isfinite(lim[2]) /\ isfinite(s) /\ s > 0
    THEN {n \in ((lim[1] \div s) - 1)..((lim[2] \div s) + 1) :
            lim[1] <= n * s /\ n * s <= lim[2]}
    ELSE {}

C20_TickSuppression ==
  Shown =>
    \A axis \in Axes :
      /\ Suppressed(axis) =>
           /\ MarksOf(axis) = {} /\ LabelsOf(axis) = {}
           /\ m_grid[axis] =>
                GridOf(axis) = Multiples(FinalLimits(axis), layout.spacing[axis])
      /\ ~m_grid[axis] => GridOf(axis) = {}
      /\ ~Suppressed(axis) =>
           /\ MarksOf(axis) = Multiples(FinalLimits(axis), FinalSpacing(axis))
           /\ LabelsOf(axis) = Multiples(FinalLimits(axis), FinalSpacing(axis))

C20_Witness ==
  /\ Shown
  /\ m_tick_spacing[1] = 0 /\ m_grid[1]
  /\ GridOf(1) # {} /\ MarksOf(1) = {}
  /\ ~Suppressed(2) /\ ~m_grid[2]
  /\ GridOf(2) = {} /\ MarksOf(2) # {}

(***************************************************************************)
(* C21: get_colour_in_cmap returns an index below the size of the palette  *)
(* unchanged; an index i that is not below the size n >= 3 is brought down *)
(* by steps of n - 2 to 2 + ((i - 2) mod (n - 2)), which lies in 2..n-1.   *)
(* With 8 entries, index 8 gives 2 and index 9 gives 3.                    *)
(***************************************************************************)
ColourCall == calc.name = "get_colour_in_cmap" /\ calc.applied

C21_ColourWraparound ==
  ColourCall /\ calc.size >= 3 =>
    /\ calc.returned
    /\ calc.colour_index < calc.size => calc.value = calc.colour_index
    /\ calc.colour_index >= calc.size =>
         /\ calc.value = 2 + ((calc.colour_index - 2) % (calc.size - 2))
         /\ calc.value \in 2..(calc.size - 1)
    /\ calc.size = 8 /\ calc.colour_index = 8 => calc.value = 2
    /\ calc.size = 8 /\ calc.colour_index = 9 => calc.value = 3

C21_Witness ==
  /\ ColourCall
  /\ calc.size = 8 /\ calc.colour_index = 9
  /\ calc.returned /\ calc.value = 3

(***************************************************************************)
(* C28: for every palette of at least one entry and every index >= 0,      *)
(* get_colour_in_cmap returns, and the index returned is below the size of *)
(* the palette.                                                            *)
(***************************************************************************)
C28_WraparoundTerminates ==
  ColourCall => calc.returned /\ calc.value < calc.size

(***************************************************************************)
(* C22: for max > min and a palette of at least one entry, Rescale returns *)
(* round (size (v - min) / (max - min)) limited to 0..size-1: a valid      *)
(* index, 0 for every v <= min, size - 1 for every v >= max, and not       *)
(* smaller for a larger v.                                                 *)
(***************************************************************************)
RescaleCall == calc.name = "Rescale" /\ calc.applied
Limited(n, lo, hi) == IF n < lo THEN lo ELSE IF n > hi THEN hi ELSE n

C22_RescaleAdapter ==
  RescaleCall =>
    LET size == calc.cmap_size
        ratio == QDiv(QMul(QInt(size), QSub(calc.v, calc.min)), QSub(calc.max, calc.min))
    IN /\ calc.value = Limited(QRound(ratio), 0, size - 1)
       /\ calc.value \in 0..(size - 1)
       /\ ~QLess(calc.min, calc.v) => calc.value = 0
       /\ ~QLess(calc.v, calc.max) => calc.value = size - 1
       /\ \A w \in RescaleValues :
            QLess(w, calc.v) => Rescale(w, calc.min, calc.max, size) <= calc.value

C22_Witness ==
  /\ RescaleCall
  /\ calc.cmap_size = 8
  /\ calc.min = QInt(0) /\ calc.max = QInt(4) /\ calc.v = Q(3, 2)
  /\ calc.value = 3

(***************************************************************************)
(* C30: for every n >= 2, gray (n) has n entries with R = G = B in 0..100, *)
(* not decreasing with the index, the first (0,0,0) and the last           *)
(* (100,100,100).                                                          *)
(***************************************************************************)
GrayCall == calc.name = "gray" /\ calc.applied

C30_GrayPalette ==
  GrayCall =>
    LET g == calc.value IN
      /\ Len(g) = calc.number
      /\ \A n \in 1..Len(g) :
           /\ g[n][1] = g[n][2] /\ g[n][2] = g[n][3]
           /\ g[n][1] \in 0..100
           /\ n > 1 => g[n - 1][1] <= g[n][1]
      /\ g[1] = <<0, 0, 0>>
      /\ g[Len(g)] = <<100, 100, 100>>

(***************************************************************************)
(* C23: every run is committed exactly once.  In every emitted colour row  *)
(* the runs of equal consecutive masks are the maximal runs of the band,   *)
(* in order, the last one included, with nothing before the first; the     *)
(* lengths of the units of the row add up to the width of the image.       *)
(***************************************************************************)
RECURSIVE TotalLength(_)
TotalLength(units) ==
  IF units = <<>> THEN 0 ELSE Head(units).n + TotalLength(Tail(units))

C23_EveryRunCommitted ==
  LET D == Decoded IN
    pc = "done" =>
      /\ D.ok
      /\ \A b \in BandIndices : \A r \in RowIndices(D.bands[b]) :
           LET row == D.bands[b][r]
               runs == MaximalRuns(ImageMasks(row.k, BandOffset(b)), 1)
           IN /\ MaximalRuns(row.masks, 1) = runs
              /\ TotalLength(row.units) = image.width
              /\ TotalLength(runs) = image.width

C23_Witness ==
  LET D == Decoded IN
    /\ pc = "done"
    /\ image.width >= 5
    /\ \E r \in RowIndices(D.bands[1]) :
         LET runs == MaximalRuns(D.bands[1][r].masks, 1) IN
           /\ Len(runs) = 2
           /\ runs[1].n = 4
           /\ runs[2].n = image.width - 4

(***************************************************************************)
(* C27: for every palette of 1 to 256 entries and either transparency      *)
(* setting, the colour loop of encode runs its body once for each index    *)
(* from its start to the last index of the palette, in order, and returns. *)
(***************************************************************************)
EncodeLoop == calc.name = "encode"

C27_EncoderTerminates ==
  EncodeLoop =>
    /\ Len(calc.visits) <= Max(calc.cmap_end - calc.cmap_start, 0)
    /\ \A n \in 1..Len(calc.visits) : calc.visits[n] = calc.cmap_start + n - 1
    /\ calc.pc = "returned" =>
         Len(calc.visits) = Max(calc.cmap_end - calc.cmap_start, 0)

(***************************************************************************)
(* Vocabulary of the properties of the calls that show makes               *)
(***************************************************************************)
Calls == layout.calls
Phase(c) ==
  IF c.by \in {"xgrid", "xlabel", "xtick"} THEN 1
  ELSE IF c.by \in {"ygrid", "ylabel", "ytick"} THEN 2
  ELSE 3
ElementCalls(id) == SelectSeq(Calls, LAMBDA c : c.by = "element" /\ c.n = id)
IsSeries(el) == el.kind \in {"YPlot", "XYPlot"}
Draws(el) == IF IsSeries(el) THEN Len(el.y) >= 2 ELSE TRUE
ShownPalette == Len(frames[1].colourmap)

(***************************************************************************)
(* C24: show draws in a fixed order: the gridlines, labels and ticks of    *)
(* the x axis, then those of the y axis, then the elements in the order in *)
(* which they were added; the image it writes holds all of them, and the   *)
(* element list is empty afterwards.                                       *)
(***************************************************************************)
C24_RenderingOrder ==
  Shown =>
    /\ \A i \in 1..(Len(Calls) - 1) :
         /\ Phase(Calls[i]) <= Phase(Calls[i + 1])
         /\ Phase(Calls[i]) = Phase(Calls[i + 1]) => Calls[i].n <= Calls[i + 1].n
    /\ {Calls[i].n : i \in {j \in DOMAIN Calls : Phase(Calls[j]) = 3}}
         = {ShownElements[n].id : n \in {k \in DOMAIN ShownElements : Draws(ShownElements[k])}}
    /\ \A n \in DOMAIN ShownElements : ShownElements[n].id = n
    /\ frames[1].canvas_size = m_canvas_size
    /\ m_elements = <<>>

C24_Witness ==
  /\ Shown
  /\ Len(ShownElements) = 2
  /\ ShownElements[1].kind = "XYPlot" /\ ShownElements[2].kind = "Line"
  /\ \E i, j, k, l \in DOMAIN Calls :
       /\ i < j /\ j < k /\ k < l
       /\ Calls[i].by = "xgrid" /\ Calls[j].by = "ygrid"
       /\ Calls[k].by = "element" /\ Calls[k].n = 1
       /\ Calls[l].by = "element" /\ Calls[l].n = 2
  /\ m_elements = <<>>

(***************************************************************************)
(* C25: show positions every element (line segment, index series, x/y      *)
(* series, text) through one linear map: x = xlim[0] goes to the column    *)
(* margin_left and xlim[1] to margin_left + plot_width - 1, y = ylim[0]    *)
(* to the row margin_top + plot_height - 1 and ylim[1] to margin_top; a    *)
(* point within the limits is drawn inside the plotting area.              *)
(***************************************************************************)
Resolved(lim) == isfinite(lim[1]) /\ isfinite(lim[2]) /\ lim[1] < lim[2]
PlotPixel(p) ==
  <<QAdd(QInt(margin_left),
         Q((plot_width(m_canvas_size) - 1) * (p[1] - layout.xlim[1]),
           layout.xlim[2] - layout.xlim[1])),
    QAdd(QInt(margin_top),
         Q((plot_height(m_canvas_size) - 1) * (layout.ylim[2] - p[2]),
           layout.ylim[2] - layout.ylim[1]))>>
RECURSIVE GCD(_, _)
GCD(a, b) == IF b = 0 THEN a ELSE GCD(b, a % b)
Lowest(a) ==
  LET g == GCD(IF a[1] < 0 THEN -a[1] ELSE a[1], a[2]) IN <<a[1] \div g, a[2] \div g>>
At(x, y, p) ==
  LET pixel == PlotPixel(p) IN
    Lowest(x) = Lowest(pixel[1]) /\ Lowest(y) = Lowest(pixel[2])
SeriesPoint(el, k) == <<IF el.kind = "YPlot" THEN (k - 1) * Unit ELSE el.x[k], el.y[k]>>
WithinLimits(p) ==
  /\ layout.xlim[1] <= p[1] /\ p[1] <= layout.xlim[2]
  /\ layout.ylim[1] <= p[2] /\ p[2] <= layout.ylim[2]
InPlotArea(x, y) ==
  /\ ~QLess(x, QInt(margin_left))
  /\ ~QLess(QInt(margin_left + plot_width(m_canvas_size) - 1), x)
  /\ ~QLess(y, QInt(margin_top))
  /\ ~QLess(QInt(margin_top + plot_height(m_canvas_size) - 1), y)

C25_DataToPixel ==
  Shown /\ Resolved(layout.xlim) /\ Resolved(layout.ylim) =>
    /\ At(QInt(margin_left), QInt(margin_top + plot_height(m_canvas_size) - 1),
          <<layout.xlim[1], layout.ylim[1]>>)
    /\ At(QInt(margin_left + plot_width(m_canvas_size) - 1), QInt(margin_top),
          <<layout.xlim[2], layout.ylim[2]>>)
    /\ \A n \in DOMAIN ShownElements :
         LET el == ShownElements[n]
             cs == ElementCalls(el.id)
         IN /\ el.kind = "Line" =>
                 \A k \in DOMAIN cs :
                   /\ At(cs[k].x0, cs[k].y0, el.a)
                   /\ At(cs[k].x1, cs[k].y1, el.b)
                   /\ WithinLimits(el.a) => InPlotArea(cs[k].x0, cs[k].y0)
                   /\ WithinLimits(el.b) => InPlotArea(cs[k].x1, cs[k].y1)
            /\ IsSeries(el) =>
                 \A k \in DOMAIN cs :
                   /\ At(cs[k].x0, cs[k].y0, SeriesPoint(el, k))
                   /\ At(cs[k].x1, cs[k].y1, SeriesPoint(el, k + 1))
                   /\ WithinLimits(SeriesPoint(el, k)) => InPlotArea(cs[k].x0, cs[k].y0)
            /\ el.kind = "Text" =>
                 \A k \in DOMAIN cs :
                   /\ At(cs[k].x, cs[k].y, el.pos)
                   /\ WithinLimits(el.pos) => InPlotArea(cs[k].x, cs[k].y)

(***************************************************************************)
(* C26: the i-th (i = 0, 1, ...) line or series without a colour of its    *)
(* own is drawn with get_colour_in_cmap (2 + i); an element with a colour  *)
(* of its own, and a text, is drawn with that colour and does not advance  *)
(* the count.                                                              *)
(***************************************************************************)
Default(el) == el.kind # "Text" /\ el.colour_index < 0
DefaultsBefore(el) ==
  Cardinality({m \in DOMAIN ShownElements :
                 ShownElements[m].id < el.id /\ Default(ShownElements[m])})
Wrapped(i, size) == IF i < size THEN i ELSE 2 + ((i - 2) % (size - 2))

C26_DefaultColourCycling ==
  Shown =>
    \A k \in DOMAIN Calls :
      Calls[k].by = "element" =>
        LET el == ShownElements[Calls[k].n] IN
          Calls[k].colour_index =
            Wrapped(IF Default(el) THEN 2 + DefaultsBefore(el) ELSE el.colour_index,
                    ShownPalette)

C26_Witness ==
  /\ Shown
  /\ ShownPalette = 3
  /\ Len(ShownElements) = 2
  /\ Default(ShownElements[1]) /\ Default(ShownElements[2])
  /\ \E i, j \in DOMAIN Calls :
       /\ Calls[i].by = "element" /\ Calls[i].n = 1 /\ Calls[i].colour_index = 2
       /\ Calls[j].by = "element" /\ Calls[j].n = 2 /\ Calls[j].colour_index = 2

(***************************************************************************)
(* C29: for a series of n points show draws n - 1 segments, between the    *)
(* points i and i + 1 for 0 <= i < n - 1, and reads only points of index   *)
(* below n; for n = 0 and n = 1 it draws no segment and reads no point     *)
(* out of the range.                                                       *)
(***************************************************************************)
C29_SegmentCount ==
  /\ "read" \notin DOMAIN layout
  /\ Shown =>
       \A n \in DOMAIN ShownElements :
         LET el == ShownElements[n] IN
           IsSeries(el) =>
             Len(ElementCalls(el.id)) = (IF Len(el.y) = 0 THEN 0 ELSE Len(el.y) - 1)

====
